---- MODULE Spec2Model ----
(***************************************************************************)
(* Model of the image converter's format capability table, validator,      *)
(* dimension arithmetic and POST /api/convert handler.                     *)
(*                                                                         *)
(* Conventions.                                                            *)
(*  - A JavaScript number that arrives as a request parameter (quality,    *)
(*    width, height) is held as an integer count of halves: Num(n) is the  *)
(*    whole number n, Num(n) + 1 is n + 0.5.  Every comparison and         *)
(*    Math.round of the code on such a number is translated onto that      *)
(*    scale.  Byte counts, byte values and pixel sizes are plain integers; *)
(*    the quotients and products calculateDimensions forms from pixel      *)
(*    sizes are binary64 numbers [m, e], rounded as the hardware does.     *)
(*  - An optional value (T | undefined) is a record [some, val].           *)
(*  - A string that the code inspects character by character (a filename)  *)
(*    is a sequence of one-character strings; a string that the code only  *)
(*    compares or lower-cases (a MIME type, a format tag) is a TLA+ string.*)
(*  - A ValidationResult is a record [valid, error, code, details] where   *)
(*    an absent error/code is "undefined" and details is the set of keys   *)
(*    of the details object ({} when the code returns no details).         *)
(***************************************************************************)
EXTENDS Integers, Sequences, FiniteSets, TLC

VARIABLES pc, input, op, ret,
          bufferValidation, paramsValidation, conversionResult,
          converterCalls, response, locals

vars == <<pc, input, op, ret, bufferValidation, paramsValidation,
          conversionResult, converterCalls, response, locals>>

handlerVars == <<bufferValidation, paramsValidation, conversionResult,
                 converterCalls, response>>

----------------------------------------------------------------------------
(* Values *)

Undefined == "undefined"

Null == "null"

Num(n) == 2 * n

\* locals holds the local variables of a loop in progress (batch, retry).
NoLocals == [none |-> TRUE]

None == [some |-> FALSE, val |-> 0]

Some(v) == [some |-> TRUE, val |-> v]

IsInteger(h) == h % 2 = 0

\* Math.round on the halves scale: n + 0.5 rounds up to n + 1.
MathRound(h) == Num((h + 1) \div 2)

Max(a, b) == IF a >= b THEN a ELSE b

Min(a, b) == IF a <= b THEN a ELSE b

Includes(seq, x) == \E i \in 1..Len(seq) : seq[i] = x

RECURSIVE SeqToSet(_)
SeqToSet(seq) == IF seq = <<>> THEN {} ELSE {Head(seq)} \cup SeqToSet(Tail(seq))

----------------------------------------------------------------------------
(* formats.ts: limits and tables *)

MAX_FILE_SIZE == 10 * 1024 * 1024

MAX_DIMENSION == 4096

MIN_DIMENSION == 1

DEFAULT_QUALITY == 90

\* The ImageFormat union type.
ImageFormats == {"jpg", "jpeg", "png", "webp", "gif", "avif", "tiff", "bmp"}

SERVER_FORMATS == <<"jpg", "jpeg", "png", "webp", "gif", "avif", "tiff", "bmp">>

LOSSY_FORMATS == <<"jpg", "jpeg", "webp", "avif">>

CONVERSION_MATRIX_Overlap ==
  << [from |-> "jpg",  to |-> <<"png", "webp", "gif">>,          method |-> "client"],
     [from |-> "jpeg", to |-> <<"png", "webp", "gif">>,          method |-> "client"],
     [from |-> "png",  to |-> <<"jpg", "jpeg", "webp", "gif">>,  method |-> "client"],
     [from |-> "webp", to |-> <<"jpg", "jpeg", "png", "gif">>,   method |-> "client"],
     [from |-> "gif",  to |-> <<"jpg", "jpeg", "png", "webp">>,  method |-> "client"],
     [from |-> "avif", to |-> <<"jpg", "jpeg", "png", "webp">>,  method |-> "server"],
     [from |-> "tiff", to |-> <<"jpg", "jpeg", "png", "webp", "avif">>, method |-> "server"],
     [from |-> "bmp",  to |-> <<"jpg", "jpeg", "png", "webp">>,  method |-> "server"],
     [from |-> "jpg",  to |-> <<"webp", "avif", "tiff">>,        method |-> "server"],
     [from |-> "png",  to |-> <<"avif", "tiff">>,                method |-> "server"],
     [from |-> "webp", to |-> <<"avif", "tiff">>,                method |-> "server"] >>

CONVERSION_MATRIX ==
  << [from |-> "jpg",  to |-> <<"png", "webp", "gif">>,          method |-> "client"],
     [from |-> "jpeg", to |-> <<"png", "webp", "gif">>,          method |-> "client"],
     [from |-> "png",  to |-> <<"jpg", "jpeg", "webp", "gif">>,  method |-> "client"],
     [from |-> "webp", to |-> <<"jpg", "jpeg", "png", "gif">>,   method |-> "client"],
     [from |-> "gif",  to |-> <<"jpg", "jpeg", "png", "webp">>,  method |-> "client"],
     [from |-> "avif", to |-> <<"jpg", "jpeg", "png", "webp">>,  method |-> "server"],
     [from |-> "tiff", to |-> <<"jpg", "jpeg", "png", "webp", "avif">>, method |-> "server"],
     [from |-> "bmp",  to |-> <<"jpg", "jpeg", "png", "webp">>,  method |-> "server"],
     [from |-> "jpg",  to |-> <<"avif", "tiff">>,                method |-> "server"],
     [from |-> "png",  to |-> <<"avif", "tiff">>,                method |-> "server"],
     [from |-> "webp", to |-> <<"avif", "tiff">>,                method |-> "server"] >>

\* The capability entries (by index) whose from is exactly f and whose to includes t.
MatchingEntries(f, t) ==
  {i \in 1..Len(CONVERSION_MATRIX) :
      CONVERSION_MATRIX[i].from = f /\ Includes(CONVERSION_MATRIX[i].to, t)}

----------------------------------------------------------------------------
(* formats.ts: lookups *)

isSupportedFormat(format) == Includes(SERVER_FORMATS, format)

isConversionSupported_NoFromTest(from, to) ==
  \E i \in 1..Len(CONVERSION_MATRIX) : Includes(CONVERSION_MATRIX[i].to, to)

isConversionSupported(from, to) ==
  \E i \in 1..Len(CONVERSION_MATRIX) :
      CONVERSION_MATRIX[i].from = from /\ Includes(CONVERSION_MATRIX[i].to, to)

supportsQuality(format) == Includes(LOSSY_FORMATS, format)

\* Array.prototype.find returns the first matching entry; `?.method || null`.
getConversionMethod(from, to) ==
  IF MatchingEntries(from, to) = {}
  THEN Null
  ELSE LET first == CHOOSE i \in MatchingEntries(from, to) :
                       \A j \in MatchingEntries(from, to) : i <= j
       IN  CONVERSION_MATRIX[first].method

\* forEach over the matrix adding each `to` of the matching entries to a Set;
\* Array.from(Set) lists the formats in first-insertion order.
RECURSIVE AddAll(_, _)
AddAll(acc, seq) ==
  IF seq = <<>> THEN acc
  ELSE AddAll(IF Includes(acc, Head(seq)) THEN acc ELSE Append(acc, Head(seq)),
              Tail(seq))

RECURSIVE OutputsFrom(_, _, _)
OutputsFrom(from, i, acc) ==
  IF i > Len(CONVERSION_MATRIX) THEN acc
  ELSE OutputsFrom(from, i + 1,
                   IF CONVERSION_MATRIX[i].from = from
                   THEN AddAll(acc, CONVERSION_MATRIX[i].to)
                   ELSE acc)

getPossibleOutputFormats(from) == OutputsFrom(from, 1, <<>>)

----------------------------------------------------------------------------
(* formats.ts: MIME types *)

\* String.prototype.toLowerCase on the strings of the model's universe.
ToLowerCase(s) ==
  CASE s = "IMAGE/PNG" -> "image/png"
    [] s = "Image/JPEG" -> "image/jpeg"
    [] s = "JPEG" -> "jpeg"
    [] s = "JPG" -> "jpg"
    [] s = "PNG" -> "png"
    [] s = "WebP" -> "webp"
    [] s = "Jpeg" -> "jpeg"
    [] s = "GIF" -> "gif"
    [] s = "AVIF" -> "avif"
    [] s = "Tiff" -> "tiff"
    [] s = "BMP" -> "bmp"
    [] OTHER -> s

MIME_TYPE_MAP ==
  << <<"image/jpeg", "jpg">>, <<"image/jpg", "jpg">>, <<"image/png", "png">>,
     <<"image/webp", "webp">>, <<"image/gif", "gif">>, <<"image/avif", "avif">>,
     <<"image/tiff", "tiff">>, <<"image/bmp", "bmp">>, <<"image/x-ms-bmp", "bmp">> >>

\* Object.keys(MIME_TYPE_MAP)
ALLOWED_MIME_TYPES == [i \in 1..Len(MIME_TYPE_MAP) |-> MIME_TYPE_MAP[i][1]]

getFormatFromMime(mimeType) ==
  LET hits == {i \in 1..Len(MIME_TYPE_MAP) : MIME_TYPE_MAP[i][1] = ToLowerCase(mimeType)}
  IN  IF hits = {} THEN Null ELSE MIME_TYPE_MAP[CHOOSE i \in hits : TRUE][2]

normalizeFormat_NoAlias(format) == ToLowerCase(format)

normalizeFormat(format) ==
  IF ToLowerCase(format) = "jpeg" THEN "jpg" ELSE ToLowerCase(format)

----------------------------------------------------------------------------
(* utils.ts: magic bytes, quality and dimension predicates *)

\* uint8Array[i] of the code is buffer[i + 1] here.  The cascade of
\* signature tests that follows the length guard, in the code's order.
SniffSignature(buffer) ==
  IF buffer[1] = 255 /\ buffer[2] = 216 /\ buffer[3] = 255 THEN "image/jpeg"
  ELSE IF buffer[1] = 137 /\ buffer[2] = 80 /\ buffer[3] = 78 /\ buffer[4] = 71
       THEN "image/png"
  ELSE IF buffer[1] = 71 /\ buffer[2] = 73 /\ buffer[3] = 70 THEN "image/gif"
  ELSE IF /\ buffer[1] = 82 /\ buffer[2] = 73 /\ buffer[3] = 70 /\ buffer[4] = 70
          /\ buffer[9] = 87 /\ buffer[10] = 69 /\ buffer[11] = 66 /\ buffer[12] = 80
       THEN "image/webp"
  ELSE IF buffer[1] = 66 /\ buffer[2] = 77 THEN "image/bmp"
  ELSE IF buffer[1] = 73 /\ buffer[2] = 73 /\ buffer[3] = 42 /\ buffer[4] = 0
       THEN "image/tiff"
  ELSE IF buffer[1] = 77 /\ buffer[2] = 77 /\ buffer[3] = 0 /\ buffer[4] = 42
       THEN "image/tiff"
  ELSE Null

detectMimeTypeFromBuffer_GuardOffByOne(buffer) ==
  IF Len(buffer) <= 12 THEN Null ELSE SniffSignature(buffer)

detectMimeTypeFromBuffer(buffer) ==
  IF Len(buffer) < 12 THEN Null ELSE SniffSignature(buffer)

validateQuality_ZeroAllowed(quality) == quality >= Num(0) /\ quality <= Num(100)

validateQuality(quality) == quality >= Num(1) /\ quality <= Num(100)

clampQuality_NoCeiling(quality) == Max(Num(1), MathRound(quality))

clampQuality(quality) == Max(Num(1), Min(Num(100), MathRound(quality)))

\* The character classes of sanitizeFilename's second pattern, [a-zA-Z0-9._-].
LowerCaseLetters ==
  {"a", "b", "c", "d", "e", "f", "g", "h", "i", "j", "k", "l", "m",
   "n", "o", "p", "q", "r", "s", "t", "u", "v", "w", "x", "y", "z"}

UpperCaseLetters ==
  {"A", "B", "C", "D", "E", "F", "G", "H", "I", "J", "K", "L", "M",
   "N", "O", "P", "Q", "R", "S", "T", "U", "V", "W", "X", "Y", "Z"}

DecimalDigits == {"0", "1", "2", "3", "4", "5", "6", "7", "8", "9"}

SafeChars == LowerCaseLetters \cup UpperCaseLetters \cup DecimalDigits \cup {".", "_", "-"}

\* replace(/\.{2,}/g, '.'): of every run of dots only the first is kept.
WithPrevious(s) == [i \in 1..Len(s) |-> <<s[i], IF i > 1 THEN s[i - 1] ELSE "">>]

NotRepeatedDot(p) == ~(p[1] = "." /\ p[2] = ".")

CollapseDots(s) ==
  LET kept == SelectSeq(WithPrevious(s), NotRepeatedDot)
  IN  [i \in 1..Len(kept) |-> kept[i][1]]

FILENAME_LIMIT == 255

ConvertedFile == <<"c", "o", "n", "v", "e", "r", "t", "e", "d", "_", "f", "i", "l", "e">>

sanitizeFilename_NoLimit(filename) ==
  LET separators == [i \in 1..Len(filename) |->
                       IF filename[i] \in {"/", "\\", ":", "NUL"} THEN "_" ELSE filename[i]]
      safe == [i \in 1..Len(filename) |->
                 IF separators[i] \in SafeChars THEN separators[i] ELSE "_"]
      sanitized == CollapseDots(safe)
  IN  IF sanitized = <<>> \/ sanitized = <<".">> THEN ConvertedFile ELSE sanitized

sanitizeFilename(filename) ==
  LET separators == [i \in 1..Len(filename) |->
                       IF filename[i] \in {"/", "\\", ":", "NUL"} THEN "_" ELSE filename[i]]
      safe == [i \in 1..Len(filename) |->
                 IF separators[i] \in SafeChars THEN separators[i] ELSE "_"]
      dots == CollapseDots(safe)
      sanitized == SubSeq(dots, 1, Min(FILENAME_LIMIT, Len(dots)))
  IN  IF sanitized = <<>> \/ sanitized = <<".">> THEN ConvertedFile ELSE sanitized

\* split('.'), pop() when there is more than one part, join('.'): the name
\* up to its last dot, or the whole name when it has none.
changeExtension(filename, newExtension) ==
  LET dots == {i \in 1..Len(filename) : filename[i] = "."}
      stem == IF dots = {} THEN filename
              ELSE SubSeq(filename, 1, (CHOOSE i \in dots : \A j \in dots : j <= i) - 1)
  IN  stem \o <<".">> \o newExtension

\* The characters of a format tag.
FormatChars(format) ==
  CASE format = "jpg" -> <<"j", "p", "g">>
    [] format = "jpeg" -> <<"j", "p", "e", "g">>
    [] format = "png" -> <<"p", "n", "g">>
    [] format = "webp" -> <<"w", "e", "b", "p">>
    [] format = "gif" -> <<"g", "i", "f">>
    [] format = "avif" -> <<"a", "v", "i", "f">>
    [] format = "tiff" -> <<"t", "i", "f", "f">>
    [] format = "bmp" -> <<"b", "m", "p">>

generateOutputFilename(inputFilename, outputFormat) ==
  changeExtension(sanitizeFilename(inputFilename), FormatChars(outputFormat))

\* types.ts: enum ErrorCode
ErrorCodes ==
  {"INVALID_FILE_TYPE", "FILE_TOO_LARGE", "FILE_TOO_SMALL", "INVALID_FORMAT",
   "UNSUPPORTED_FORMAT", "INVALID_DIMENSIONS", "MISSING_PARAMETER", "INVALID_QUALITY",
   "CONVERSION_FAILED", "CORRUPTED_FILE", "UNSUPPORTED_OPERATION",
   "DIMENSION_LIMIT_EXCEEDED",
   "INTERNAL_ERROR", "SHARP_ERROR", "FILE_SYSTEM_ERROR", "OUT_OF_MEMORY"}

getHttpStatusFromErrorCode_OperationUnlisted(code) ==
  CASE code \in {"INVALID_FILE_TYPE", "INVALID_FORMAT", "MISSING_PARAMETER",
                 "INVALID_QUALITY"} -> 400
    [] code = "FILE_TOO_LARGE" -> 413
    [] code = "UNSUPPORTED_FORMAT" -> 415
    [] code \in {"CONVERSION_FAILED", "CORRUPTED_FILE", "DIMENSION_LIMIT_EXCEEDED",
                 "FILE_TOO_SMALL", "INVALID_DIMENSIONS"} -> 422
    [] OTHER -> 500

getHttpStatusFromErrorCode(code) ==
  CASE code \in {"INVALID_FILE_TYPE", "INVALID_FORMAT", "MISSING_PARAMETER",
                 "INVALID_QUALITY"} -> 400
    [] code = "FILE_TOO_LARGE" -> 413
    [] code = "UNSUPPORTED_FORMAT" -> 415
    [] code \in {"CONVERSION_FAILED", "CORRUPTED_FILE", "UNSUPPORTED_OPERATION",
                 "DIMENSION_LIMIT_EXCEEDED", "FILE_TOO_SMALL",
                 "INVALID_DIMENSIONS"} -> 422
    [] code \in {"INTERNAL_ERROR", "SHARP_ERROR", "FILE_SYSTEM_ERROR",
                 "OUT_OF_MEMORY"} -> 500
    [] OTHER -> 500

----------------------------------------------------------------------------
(* validator.ts *)

Valid == [valid |-> TRUE, error |-> Undefined, code |-> Undefined, details |-> {}]

Invalid(error, code, details) ==
  [valid |-> FALSE, error |-> error, code |-> code, details |-> details]

validateFileType(mimeType, allowedTypes) ==
  IF ~Includes(allowedTypes, ToLowerCase(mimeType))
  THEN Invalid("Invalid file type", "INVALID_FILE_TYPE",
               {"receivedType", "supportedTypes"})
  ELSE Valid

validateFileSize(fileSize, maxSize) ==
  IF fileSize > maxSize
  THEN Invalid("File too large", "FILE_TOO_LARGE", {"fileSize", "maxSize"})
  ELSE IF fileSize = 0
  THEN Invalid("File is empty", "FILE_TOO_SMALL", {"fileSize"})
  ELSE Valid

validateFormat(format) ==
  IF ~isSupportedFormat(format)
  THEN Invalid("Unsupported format", "UNSUPPORTED_FORMAT", {"format"})
  ELSE Valid

validateConversion(fromFormat, toFormat) ==
  IF ~isConversionSupported(fromFormat, toFormat)
  THEN Invalid("Unsupported conversion", "UNSUPPORTED_OPERATION", {"from", "to"})
  ELSE Valid

validateQualityParameter(quality, format) ==
  IF ~quality.some THEN Valid
  ELSE IF ~validateQuality(quality.val)
  THEN Invalid("Invalid quality value", "INVALID_QUALITY", {"quality", "validRange"})
  ELSE IF ~supportsQuality(format)
  THEN [valid |-> TRUE, error |-> Undefined, code |-> Undefined,
        details |-> {"warning"}]
  ELSE Valid

\* file: [isBuffer, size, head, readFails]; head holds the first
\* min(size, 12) bytes of the content.  A Buffer is handed over whole and a
\* File as file.slice(0, 12); detectMimeTypeFromBuffer reads the length only
\* to compare it with 12 and no byte past the twelfth, so head decides both.
\* readFails is the rejection of blob.arrayBuffer(), possible for a File only.
validateFileWithMagicBytes_ReadErrorUndetected(file) ==
  IF ~file.isBuffer /\ file.readFails
  THEN Invalid("Could not detect file type from content", "INVALID_FILE_TYPE", {})
  ELSE LET detectedMime == detectMimeTypeFromBuffer(file.head)
       IN  IF detectedMime = Null
           THEN Invalid("Could not detect file type from content",
                        "INVALID_FILE_TYPE", {})
           ELSE IF ~Includes(ALLOWED_MIME_TYPES, detectedMime)
           THEN Invalid("Unsupported file type detected", "UNSUPPORTED_FORMAT",
                        {"detectedType"})
           ELSE Valid

validateFileWithMagicBytes(file) ==
  IF ~file.isBuffer /\ file.readFails
  THEN Invalid("Error reading file", "CORRUPTED_FILE", {})
  ELSE LET detectedMime == detectMimeTypeFromBuffer(file.head)
       IN  IF detectedMime = Null
           THEN Invalid("Could not detect file type from content",
                        "INVALID_FILE_TYPE", {})
           ELSE IF ~Includes(ALLOWED_MIME_TYPES, detectedMime)
           THEN Invalid("Unsupported file type detected", "UNSUPPORTED_FORMAT",
                        {"detectedType"})
           ELSE Valid

\* trim() removes leading and trailing white space: the result is empty
\* exactly when every character is white space.
validateFilename(filename) ==
  IF filename = <<>> \/ \A i \in 1..Len(filename) : filename[i] = " "
  THEN Invalid("Filename is required", "MISSING_PARAMETER", {})
  ELSE IF \/ \E i \in 1..(Len(filename) - 1) : filename[i] = "." /\ filename[i + 1] = "."
          \/ Includes(filename, "/")
          \/ Includes(filename, "\\")
  THEN Invalid("Invalid filename", "INVALID_FILE_TYPE", {"reason"})
  ELSE IF Includes(filename, "NUL")
  THEN Invalid("Invalid filename", "INVALID_FILE_TYPE", {"reason"})
  ELSE Valid

validateFile_SizeBeforeName(file, options) ==
  LET filenameValidation == validateFilename(file.name)
      sizeValidation == validateFileSize(file.size, options.maxSize)
      typeValidation == validateFileType(file.type, options.allowedTypes)
      magicBytesValidation ==
        validateFileWithMagicBytes([isBuffer |-> FALSE, size |-> file.size,
                                    head |-> file.head, readFails |-> file.readFails])
  IN  IF ~sizeValidation.valid THEN sizeValidation
      ELSE IF ~filenameValidation.valid THEN filenameValidation
      ELSE IF ~typeValidation.valid THEN typeValidation
      ELSE IF options.checkMagicBytes /\ ~magicBytesValidation.valid
      THEN magicBytesValidation
      ELSE Valid

\* file: [name, size, type, head, readFails];
\* options: [maxSize, allowedTypes, checkMagicBytes] with the defaults filled in.
validateFile(file, options) ==
  LET filenameValidation == validateFilename(file.name)
      sizeValidation == validateFileSize(file.size, options.maxSize)
      typeValidation == validateFileType(file.type, options.allowedTypes)
      magicBytesValidation ==
        validateFileWithMagicBytes([isBuffer |-> FALSE, size |-> file.size,
                                    head |-> file.head, readFails |-> file.readFails])
  IN  IF ~filenameValidation.valid THEN filenameValidation
      ELSE IF ~sizeValidation.valid THEN sizeValidation
      ELSE IF ~typeValidation.valid THEN typeValidation
      ELSE IF options.checkMagicBytes /\ ~magicBytesValidation.valid
      THEN magicBytesValidation
      ELSE Valid

\* buffer: [size, head]; options: [maxSize, checkMagicBytes].
validateBuffer(buffer, mimeType, options) ==
  LET sizeValidation == validateFileSize(buffer.size, options.maxSize)
      typeValidation == validateFileType(mimeType, ALLOWED_MIME_TYPES)
      magicBytesValidation ==
        validateFileWithMagicBytes([isBuffer |-> TRUE, size |-> buffer.size,
                                    head |-> buffer.head, readFails |-> FALSE])
  IN  IF ~sizeValidation.valid THEN sizeValidation
      ELSE IF ~typeValidation.valid THEN typeValidation
      ELSE IF options.checkMagicBytes /\ ~magicBytesValidation.valid
      THEN magicBytesValidation
      ELSE Valid

\* As validateConversionParameters, but testing the defaulted values
\* `width || MAX_DIMENSION` and `height || MAX_DIMENSION` that the code
\* computes and leaves unused: a zero then passes as if absent.
validateConversionParameters_TestsDefaulted(params) ==
  LET inputFormatValidation == validateFormat(params.inputFormat)
      outputFormatValidation == validateFormat(params.outputFormat)
      conversionValidation == validateConversion(params.inputFormat, params.outputFormat)
      qualityValidation == validateQualityParameter(params.quality, params.outputFormat)
      w == IF params.width.some /\ params.width.val # 0
           THEN params.width.val ELSE Num(MAX_DIMENSION)
      h == IF params.height.some /\ params.height.val # 0
           THEN params.height.val ELSE Num(MAX_DIMENSION)
  IN  IF ~inputFormatValidation.valid THEN inputFormatValidation
      ELSE IF ~outputFormatValidation.valid THEN outputFormatValidation
      ELSE IF ~conversionValidation.valid THEN conversionValidation
      ELSE IF params.quality.some /\ ~qualityValidation.valid THEN qualityValidation
      ELSE IF w < Num(MIN_DIMENSION) \/ w > Num(MAX_DIMENSION)
      THEN Invalid("Invalid width", "INVALID_DIMENSIONS", {"width", "min", "max"})
      ELSE IF h < Num(MIN_DIMENSION) \/ h > Num(MAX_DIMENSION)
      THEN Invalid("Invalid height", "INVALID_DIMENSIONS", {"height", "min", "max"})
      ELSE Valid

\* params: [inputFormat, outputFormat, quality, width, height], the last
\* three optional.
validateConversionParameters(params) ==
  LET inputFormatValidation == validateFormat(params.inputFormat)
      outputFormatValidation == validateFormat(params.outputFormat)
      conversionValidation == validateConversion(params.inputFormat, params.outputFormat)
      qualityValidation == validateQualityParameter(params.quality, params.outputFormat)
      width == params.width
      height == params.height
  IN  IF ~inputFormatValidation.valid THEN inputFormatValidation
      ELSE IF ~outputFormatValidation.valid THEN outputFormatValidation
      ELSE IF ~conversionValidation.valid THEN conversionValidation
      ELSE IF params.quality.some /\ ~qualityValidation.valid THEN qualityValidation
      ELSE IF /\ width.some
              /\ (width.val < Num(MIN_DIMENSION) \/ width.val > Num(MAX_DIMENSION))
      THEN Invalid("Invalid width", "INVALID_DIMENSIONS", {"width", "min", "max"})
      ELSE IF /\ height.some
              /\ (height.val < Num(MIN_DIMENSION) \/ height.val > Num(MAX_DIMENSION))
      THEN Invalid("Invalid height", "INVALID_DIMENSIONS", {"height", "min", "max"})
      ELSE Valid

----------------------------------------------------------------------------
(* Inputs of the table and validator specifications *)

QualityMargin == 1

DimMargin == 1

MaxNameLen == 2

\* The quality values tried: around both ends of [1, 100] in steps of one
\* half (so 0, 0.5, 1, 1.5, 99.5, 100, 100.5 and a negative value), a middle
\* value, and undefined.
QualitySamples ==
  {None} \cup
  {Some(h) : h \in ((Num(0) - QualityMargin)..(Num(1) + QualityMargin))
                   \cup ((Num(100) - QualityMargin)..(Num(100) + QualityMargin))
                   \cup {Num(50)}}

\* The width and height values tried: around both ends of
\* [MIN_DIMENSION, MAX_DIMENSION], 5000, and undefined.
DimSamples ==
  {None} \cup
  {Some(h) : h \in ((Num(0) - DimMargin)..(Num(MIN_DIMENSION) + DimMargin))
                   \cup ((Num(MAX_DIMENSION) - DimMargin)..(Num(MAX_DIMENSION) + DimMargin))
                   \cup {Num(5000)}}

ParamsInputs ==
  [kind : {"params"}, inputFormat : ImageFormats, outputFormat : ImageFormats,
   quality : QualitySamples, width : DimSamples, height : DimSamples]

TableInputs ==
  [kind : {"params"}, inputFormat : ImageFormats, outputFormat : ImageFormats,
   quality : {None}, width : {None}, height : {None}]

FilenameChars == {"a", ".", "/", "\\", "NUL", " "}

RECURSIVE SeqsUpTo(_, _)
SeqsUpTo(S, n) ==
  IF n = 0 THEN {<<>>}
  ELSE LET shorter == SeqsUpTo(S, n - 1)
       IN  shorter \cup {Append(q, c) : q \in {x \in shorter : Len(x) = n - 1}, c \in S}

Filenames == SeqsUpTo(FilenameChars, MaxNameLen)

Take(seq, n) == [i \in 1..Min(n, Len(seq)) |-> seq[i]]

\* Twelve leading bytes of a JPEG, PNG, GIF, WebP, BMP, TIFF, AVIF
\* (a box length, then "ftypavif") and an all-zero file.
HeadPatterns ==
  { <<255, 216, 255, 224, 0, 16, 74, 70, 73, 70, 0, 1>>,
    <<0, 0, 0, 32, 102, 116, 121, 112, 97, 118, 105, 102>>,
    <<137, 80, 78, 71, 13, 10, 26, 10, 0, 0, 0, 13>>,
    <<71, 73, 70, 56, 57, 97, 1, 0, 1, 0, 0, 0>>,
    <<82, 73, 70, 70, 36, 0, 0, 0, 87, 69, 66, 80>>,
    <<66, 77, 70, 0, 0, 0, 0, 0, 0, 0, 54, 0>>,
    <<73, 73, 42, 0, 8, 0, 0, 0, 0, 0, 0, 0>>,
    <<0, 0, 0, 0, 0, 0, 0, 0, 0, 0, 0, 0>> }

FileSizes == {0, 3, 12, 13, MAX_FILE_SIZE, MAX_FILE_SIZE + 1}

\* A file's content as the validator sees it: its size and its first
\* min(size, 12) bytes.
FileContents ==
  {[size |-> n, head |-> Take(p, n)] : n \in FileSizes, p \in HeadPatterns}

DeclaredTypes == {"image/jpeg", "image/png", "IMAGE/PNG", "image/avif", "text/plain"}

FileInputs ==
  {[kind |-> "file", name |-> nm, size |-> c.size, head |-> c.head, type |-> t,
    readFails |-> rf, checkMagicBytes |-> cm] :
      nm \in Filenames, c \in FileContents, t \in DeclaredTypes,
      rf \in BOOLEAN, cm \in BOOLEAN}

\* Parameters as a request supplies them: the format tags are strings that
\* need not belong to ImageFormat.
FormatTags == ImageFormats \cup {"xyz", "svg", ""}

UntypedInputs ==
  [kind : {"untyped"}, inputFormat : {"png", "xyz"}, outputFormat : FormatTags,
   quality : {None, Some(Num(0)), Some(Num(50))},
   width : {None, Some(Num(5000))}, height : {None}]

\* Every code of the enum and two strings outside it.
CodeInputs == [kind : {"code"}, code : ErrorCodes \cup {"UNKNOWN", ""}]

DefaultFileOptions(checkMagicBytes) ==
  [maxSize |-> MAX_FILE_SIZE, allowedTypes |-> ALLOWED_MIME_TYPES,
   checkMagicBytes |-> checkMagicBytes]

InputParams ==
  [inputFormat |-> input.inputFormat, outputFormat |-> input.outputFormat,
   quality |-> input.quality, width |-> input.width, height |-> input.height]

----------------------------------------------------------------------------
(* Calls of the pure functions: the inputs are drawn by Init, one call is
   made and its result kept in ret. *)

HandlerIdle ==
  /\ bufferValidation = None
  /\ paramsValidation = None
  /\ conversionResult = None
  /\ converterCalls = 0
  /\ response = None

Call(name, kind, value) ==
  /\ pc = "ready"
  /\ input.kind = kind
  /\ op' = name
  /\ ret' = value
  /\ pc' = "done"
  /\ UNCHANGED <<input, handlerVars, locals>>

CallIsConversionSupported ==
  Call("isConversionSupported", "params",
       isConversionSupported(input.inputFormat, input.outputFormat))

CallGetConversionMethod ==
  Call("getConversionMethod", "params",
       getConversionMethod(input.inputFormat, input.outputFormat))

CallGetPossibleOutputFormats ==
  Call("getPossibleOutputFormats", "params",
       getPossibleOutputFormats(input.inputFormat))

CallValidateConversion ==
  Call("validateConversion", "params",
       validateConversion(input.inputFormat, input.outputFormat))

CallValidateQualityParameter ==
  Call("validateQualityParameter", "params",
       validateQualityParameter(input.quality, input.outputFormat))

CallValidateConversionParameters ==
  Call("validateConversionParameters", "params",
       validateConversionParameters(InputParams))

CallValidateFile ==
  Call("validateFile", "file",
       validateFile(input, DefaultFileOptions(input.checkMagicBytes)))

CallValidateBuffer ==
  Call("validateBuffer", "file",
       validateBuffer([size |-> input.size, head |-> input.head], input.type,
                      [maxSize |-> MAX_FILE_SIZE,
                       checkMagicBytes |-> input.checkMagicBytes]))

CallValidateFormat ==
  Call("validateFormat", "untyped", validateFormat(input.outputFormat))

CallValidateConversionParametersOfRequest ==
  Call("validateConversionParameters(request)", "untyped",
       validateConversionParameters(InputParams))

CallValidateFilename ==
  Call("validateFilename", "file", validateFilename(input.name))

CallValidateFileSize ==
  Call("validateFileSize", "file", validateFileSize(input.size, MAX_FILE_SIZE))

CallValidateFileType ==
  Call("validateFileType", "file", validateFileType(input.type, ALLOWED_MIME_TYPES))

\* The argument is a File (validateFile) ...
CallValidateFileWithMagicBytes ==
  Call("validateFileWithMagicBytes", "file",
       validateFileWithMagicBytes([isBuffer |-> FALSE, size |-> input.size,
                                   head |-> input.head, readFails |-> input.readFails]))

\* ... or a Buffer (validateBuffer), whose bytes are at hand.
CallValidateFileWithMagicBytesOfBuffer ==
  Call("validateFileWithMagicBytes(Buffer)", "file",
       validateFileWithMagicBytes([isBuffer |-> TRUE, size |-> input.size,
                                   head |-> input.head, readFails |-> input.readFails]))

CallGetHttpStatusFromErrorCode ==
  Call("getHttpStatusFromErrorCode", "code", getHttpStatusFromErrorCode(input.code))

InitTable ==
  /\ pc = "ready"
  /\ input \in TableInputs
  /\ op = "none"
  /\ ret = Null
  /\ HandlerIdle
  /\ locals = NoLocals

NextTable ==
  \/ CallIsConversionSupported
  \/ CallGetConversionMethod
  \/ CallGetPossibleOutputFormats

SpecTable == InitTable /\ [][NextTable]_vars

InitValidator ==
  /\ pc = "ready"
  /\ input \in ParamsInputs \cup UntypedInputs \cup FileInputs \cup CodeInputs
  /\ op = "none"
  /\ ret = Null
  /\ HandlerIdle
  /\ locals = NoLocals

NextValidator ==
  \/ CallIsConversionSupported
  \/ CallValidateConversion
  \/ CallValidateQualityParameter
  \/ CallValidateConversionParameters
  \/ CallValidateFile
  \/ CallValidateFormat
  \/ CallValidateConversionParametersOfRequest
  \/ CallValidateFilename
  \/ CallValidateFileSize
  \/ CallValidateFileType
  \/ CallValidateFileWithMagicBytes
  \/ CallValidateFileWithMagicBytesOfBuffer
  \/ CallGetHttpStatusFromErrorCode
  \/ CallValidateBuffer

SpecValidator == InitValidator /\ [][NextValidator]_vars

----------------------------------------------------------------------------
(* Claims about the capability table and the validator *)

\* The (source, destination) pairs that CONVERSION_MATRIX lists, read off
\* the entries one destination at a time.
ListedPairs ==
  UNION {{<<CONVERSION_MATRIX[i].from, CONVERSION_MATRIX[i].to[j]>> :
             j \in 1..Len(CONVERSION_MATRIX[i].to)} :
         i \in 1..Len(CONVERSION_MATRIX)}

InputPair == <<input.inputFormat, input.outputFormat>>

Called(name) == pc = "done" /\ op = name

\* C1: for every pair of formats of the ImageFormat set that
\* CONVERSION_MATRIX does not list, isConversionSupported answers false and
\* validateConversion and validateConversionParameters (whatever the quality,
\* width and height) answer an invalid verdict with code UNSUPPORTED_OPERATION.
C1_UnlistedPairRejected ==
  (pc = "done" /\ input.kind = "params" /\ InputPair \notin ListedPairs) =>
     /\ op = "isConversionSupported" => ret = FALSE
     /\ op \in {"validateConversion", "validateConversionParameters"} =>
           ~ret.valid /\ ret.code = "UNSUPPORTED_OPERATION"

C1_Witness ==
  /\ Called("validateConversionParameters")
  /\ InputPair = <<"jpg", "bmp">>
  /\ input.quality = Some(Num(0))
  /\ input.width = Some(Num(5000))
  /\ ret.code = "UNSUPPORTED_OPERATION"

\* C2: jpeg and jpg are one logical format in every table lookup:
\* isConversionSupported, getConversionMethod and getPossibleOutputFormats
\* answer for source jpeg as they do for source jpg, and for destination jpeg
\* as they do for destination jpg.
C2_JpegIsJpg ==
  /\ (pc = "done" /\ input.inputFormat = "jpeg") =>
        /\ op = "isConversionSupported" =>
              ret = isConversionSupported("jpg", input.outputFormat)
        /\ op = "getConversionMethod" =>
              ret = getConversionMethod("jpg", input.outputFormat)
        /\ op = "getPossibleOutputFormats" =>
              SeqToSet(ret) = SeqToSet(getPossibleOutputFormats("jpg"))
  /\ (pc = "done" /\ input.outputFormat = "jpeg") =>
        /\ op = "isConversionSupported" =>
              ret = isConversionSupported(input.inputFormat, "jpg")
        /\ op = "getConversionMethod" =>
              ret = getConversionMethod(input.inputFormat, "jpg")

\* C3: every (source, destination) pair is covered by at most one capability
\* entry, so the first-match answer of getConversionMethod is the method of
\* every entry that matches the pair.
C3_AtMostOneEntry ==
  /\ Cardinality(MatchingEntries(input.inputFormat, input.outputFormat)) <= 1
  /\ Called("getConversionMethod") =>
        \A i \in MatchingEntries(input.inputFormat, input.outputFormat) :
            CONVERSION_MATRIX[i].method = ret

\* jpg has a client entry and a server entry; jpg -> avif is in the second.
C3_Witness ==
  /\ Called("getConversionMethod")
  /\ InputPair = <<"jpg", "avif">>
  /\ ret = "server"

\* The verdict of the first failing check of a list of verdicts, or Valid.
RECURSIVE FirstFailing(_)
FirstFailing(verdicts) ==
  IF verdicts = <<>> THEN Valid
  ELSE IF ~Head(verdicts).valid THEN Head(verdicts)
  ELSE FirstFailing(Tail(verdicts))

Failing(verdicts) == {i \in 1..Len(verdicts) : ~verdicts[i].valid}

\* The four checks of validateFile on the file drawn, in the specified order.
FileChecks ==
  << validateFilename(input.name),
     validateFileSize(input.size, MAX_FILE_SIZE),
     validateFileType(input.type, ALLOWED_MIME_TYPES),
     IF input.checkMagicBytes
     THEN validateFileWithMagicBytes([isBuffer |-> FALSE, size |-> input.size,
                                      head |-> input.head,
                                      readFails |-> input.readFails])
     ELSE Valid >>

DimensionOutOfRange(d) ==
  d.some /\ (d.val < Num(MIN_DIMENSION) \/ d.val > Num(MAX_DIMENSION))

\* The three checks of validateConversionParameters on the parameters drawn,
\* in the specified order, each reduced to its error code.
ParamsCheckCodes ==
  << IF isConversionSupported(input.inputFormat, input.outputFormat)
     THEN Undefined ELSE "UNSUPPORTED_OPERATION",
     validateQualityParameter(input.quality, input.outputFormat).code,
     IF DimensionOutOfRange(input.width) \/ DimensionOutOfRange(input.height)
     THEN "INVALID_DIMENSIONS" ELSE Undefined >>

FailingCodes == {i \in 1..3 : ParamsCheckCodes[i] # Undefined}

\* C4: validateFile returns the verdict of the earliest failing check among
\* filename, size, declared MIME type and magic bytes, and
\* validateConversionParameters the verdict of the earliest failing check among
\* format-pair support, quality and dimensions; a later failure never masks an
\* earlier one.
C4_ShortCircuitOrder ==
  /\ Called("validateFile") => ret = FirstFailing(FileChecks)
  /\ Called("validateConversionParameters") =>
        IF FailingCodes = {}
        THEN ret.valid
        ELSE /\ ~ret.valid
             /\ ret.code = ParamsCheckCodes[CHOOSE i \in FailingCodes :
                                              \A j \in FailingCodes : i <= j]

\* A file failing all four checks is answered by the filename check.
C4_Witness ==
  /\ Called("validateFile")
  /\ Cardinality(Failing(FileChecks)) = 4
  /\ ret = validateFilename(input.name)
  /\ ret.code = "INVALID_FILE_TYPE"
  /\ ret.details = {"reason"}

\* C7 as stated: a supplied quality is a hard failure exactly when it is not
\* an integer in [1, 100]; validateQualityParameter and
\* validateConversionParameters (on a supported pair) answer INVALID_QUALITY for
\* every such quality, whatever the destination format, and for no other.
C7_FailsIffNotIntegerInRange ==
  (\/ Called("validateQualityParameter")
   \/ Called("validateConversionParameters") /\ InputPair \in ListedPairs) =>
     ((~ret.valid /\ ret.code = "INVALID_QUALITY") <=>
        (/\ input.quality.some
         /\ ~(/\ IsInteger(input.quality.val)
              /\ input.quality.val >= Num(1)
              /\ input.quality.val <= Num(100))))

\* C7 as amended: a supplied quality is a hard failure exactly when it lies
\* outside [1, 100] (a fraction inside the range, such as 1.5, is accepted);
\* both functions then answer INVALID_QUALITY, for lossy and lossless
\* destinations alike, and never for a quality inside the range or absent.
C7_FailsIffOutOfRange ==
  (\/ Called("validateQualityParameter")
   \/ Called("validateConversionParameters") /\ InputPair \in ListedPairs) =>
     ((~ret.valid /\ ret.code = "INVALID_QUALITY") <=>
        (/\ input.quality.some
         /\ (input.quality.val < Num(1) \/ input.quality.val > Num(100))))

\* 100.5 for the lossless destination png, through validateConversionParameters.
C7_Witness ==
  /\ Called("validateConversionParameters")
  /\ InputPair = <<"jpg", "png">>
  /\ input.quality = Some(Num(100) + 1)
  /\ ~ret.valid
  /\ ret.code = "INVALID_QUALITY"

\* C8: an in-range quality for a destination outside {jpg, jpeg, webp, avif}
\* is accepted with a warning: the verdict of validateQualityParameter and of
\* validateConversionParameters (on a supported pair with acceptable
\* dimensions) is valid and carries a warning in its details; for a lossy
\* destination or an absent quality the verdict carries no warning.
C8_WarningSurfaced ==
  (\/ Called("validateQualityParameter")
   \/ /\ Called("validateConversionParameters")
      /\ InputPair \in ListedPairs
      /\ ~DimensionOutOfRange(input.width)
      /\ ~DimensionOutOfRange(input.height)) =>
     IF /\ input.quality.some
        /\ input.quality.val >= Num(1)
        /\ input.quality.val <= Num(100)
        /\ input.outputFormat \notin {"jpg", "jpeg", "webp", "avif"}
     THEN ret.valid /\ "warning" \in ret.details
     ELSE "warning" \notin ret.details

\* C9: on a supported pair with an acceptable quality,
\* validateConversionParameters answers INVALID_DIMENSIONS if and only if a
\* supplied width or a supplied height lies outside [1, 4096], zero and
\* negative values included; an absent width or height never fails.
C9_DimensionsFailIffOutOfRange ==
  (/\ Called("validateConversionParameters")
   /\ InputPair \in ListedPairs
   /\ validateQualityParameter(input.quality, input.outputFormat).valid) =>
     ((~ret.valid /\ ret.code = "INVALID_DIMENSIONS") <=>
        (\/ input.width.some /\ (input.width.val < Num(1) \/ input.width.val > Num(4096))
         \/ input.height.some /\ (input.height.val < Num(1) \/ input.height.val > Num(4096))))

\* Width absent, height 0.
C9_Witness ==
  /\ Called("validateConversionParameters")
  /\ InputPair = <<"png", "webp">>
  /\ input.width = None
  /\ input.height = Some(Num(0))
  /\ ret.code = "INVALID_DIMENSIONS"

\* The validator functions of validator.ts that return a verdict.
ValidatorNames ==
  {"validateFilename", "validateFileSize", "validateFileType",
   "validateFileWithMagicBytes", "validateFileWithMagicBytes(Buffer)",
   "validateFormat", "validateConversion", "validateQualityParameter",
   "validateConversionParameters", "validateConversionParameters(request)"}

CalledValidator == pc = "done" /\ op \in ValidatorNames

\* C15: getHttpStatusFromErrorCode maps INVALID_FILE_TYPE, FILE_TOO_SMALL,
\* INVALID_FORMAT, MISSING_PARAMETER and INVALID_QUALITY to 400,
\* FILE_TOO_LARGE to 413, UNSUPPORTED_FORMAT to 415, CONVERSION_FAILED,
\* CORRUPTED_FILE, UNSUPPORTED_OPERATION, DIMENSION_LIMIT_EXCEEDED and
\* INVALID_DIMENSIONS to 422, and the four server codes and any unknown
\* code to 500.
C15_StatusByClass ==
  Called("getHttpStatusFromErrorCode") =>
     ret = CASE input.code \in {"INVALID_FILE_TYPE", "FILE_TOO_SMALL", "INVALID_FORMAT",
                                "MISSING_PARAMETER", "INVALID_QUALITY"} -> 400
             [] input.code = "FILE_TOO_LARGE" -> 413
             [] input.code = "UNSUPPORTED_FORMAT" -> 415
             [] input.code \in {"CONVERSION_FAILED", "CORRUPTED_FILE",
                                "UNSUPPORTED_OPERATION", "DIMENSION_LIMIT_EXCEEDED",
                                "INVALID_DIMENSIONS"} -> 422
             [] OTHER -> 500

\* C16: every invalid verdict a validator function can return has a code
\* that getHttpStatusFromErrorCode maps to a 4xx status.
C16_ValidationFailuresAre4xx ==
  (CalledValidator /\ ~ret.valid) =>
     /\ ret.code \in ErrorCodes
     /\ getHttpStatusFromErrorCode(ret.code) >= 400
     /\ getHttpStatusFromErrorCode(ret.code) <= 499

\* An unsupported conversion, refused by validateConversionParameters.
C16_Witness ==
  /\ Called("validateConversionParameters")
  /\ ~ret.valid
  /\ ret.code = "UNSUPPORTED_OPERATION"
  /\ getHttpStatusFromErrorCode(ret.code) = 422

\* C19: every invalid verdict of a validation check carries both an error
\* code and contextual details.
C19_InvalidVerdictHasCodeAndDetails ==
  (CalledValidator /\ ~ret.valid) =>
     /\ ret.code \in ErrorCodes
     /\ ret.details # {}

\* C20: validateFileWithMagicBytes always returns a verdict: when reading
\* the file's bytes fails it is invalid with CORRUPTED_FILE, and
\* CORRUPTED_FILE is returned in that case only (readable content that
\* matches no signature gets another code).
C20_CorruptedIffUnreadable ==
  /\ Called("validateFileWithMagicBytes") =>
        /\ ret.valid \in BOOLEAN
        /\ input.readFails => (~ret.valid /\ ret.code = "CORRUPTED_FILE")
        /\ ~input.readFails => ret.code # "CORRUPTED_FILE"
        /\ (~input.readFails /\ detectMimeTypeFromBuffer(input.head) = Null) =>
              (~ret.valid /\ ret.code = "INVALID_FILE_TYPE")
  /\ Called("validateFileWithMagicBytes(Buffer)") =>
        /\ ret.valid \in BOOLEAN
        /\ ret.code # "CORRUPTED_FILE"

\* A File with a PNG head whose bytes cannot be read.
C20_Witness ==
  /\ Called("validateFileWithMagicBytes")
  /\ input.readFails
  /\ input.head = <<137, 80, 78, 71, 13, 10, 26, 10, 0, 0, 0, 13>>
  /\ ret.code = "CORRUPTED_FILE"

----------------------------------------------------------------------------
(* Magic-byte detection on whole buffers *)

MaxBufLen == 13

\* The values tried at each of the first four bytes: every value some
\* signature test compares that byte with, and 0.
LeadBytes ==
  << {255, 137, 71, 82, 66, 73, 77, 0},
     {216, 80, 73, 77, 0},
     {255, 78, 70, 42, 0},
     {71, 70, 42, 56, 0} >>

\* Bytes 5 to 8: the rest of the PNG signature, or zeros.
MidBytes == {<<13, 10, 26, 10>>, <<0, 0, 0, 0>>}

\* Bytes 9 to 12: each either the byte of "WEBP" or 0.
TailBytes == {87, 0} \X {69, 0} \X {66, 0} \X {80, 0}

\* Every byte past the twelfth.
FillBytes == {0, 255}

Buffers ==
  {Take(<<b1, b2, b3, b4>> \o mid \o tail \o [i \in 1..(MaxBufLen - 12) |-> fill], len) :
      b1 \in LeadBytes[1], b2 \in LeadBytes[2], b3 \in LeadBytes[3],
      b4 \in LeadBytes[4], mid \in MidBytes, tail \in TailBytes,
      fill \in FillBytes, len \in 0..MaxBufLen}

CallDetectMimeTypeFromBuffer ==
  Call("detectMimeTypeFromBuffer", "buffer", detectMimeTypeFromBuffer(input.bytes))

InitDetect ==
  /\ pc = "ready"
  /\ input \in [kind : {"buffer"}, bytes : Buffers]
  /\ op = "none"
  /\ ret = Null
  /\ HandlerIdle
  /\ locals = NoLocals

NextDetect == CallDetectMimeTypeFromBuffer

SpecDetect == InitDetect /\ [][NextDetect]_vars

StartsWith(buffer, prefix) ==
  /\ Len(buffer) >= Len(prefix)
  /\ \A i \in 1..Len(prefix) : buffer[i] = prefix[i]

AllZero(buffer) == \A i \in 1..Len(buffer) : buffer[i] = 0

\* C6 as stated: for every buffer, whatever its length and remaining bytes,
\* detectMimeTypeFromBuffer returns image/jpeg when the buffer begins with
\* FF D8 FF, image/png when it begins with 89 50 4E 47, and null when every
\* byte is zero.
C6_DetectsAtAnyLength ==
  Called("detectMimeTypeFromBuffer") =>
     /\ StartsWith(input.bytes, <<255, 216, 255>>) => ret = "image/jpeg"
     /\ StartsWith(input.bytes, <<137, 80, 78, 71>>) => ret = "image/png"
     /\ AllZero(input.bytes) => ret = Null

\* C6 as amended: for every buffer of at least 12 bytes, whatever its
\* remaining bytes, detectMimeTypeFromBuffer returns image/jpeg when the buffer
\* begins with FF D8 FF and image/png when it begins with 89 50 4E 47; it
\* returns null when every byte is zero, and for every buffer shorter than 12
\* bytes whatever it begins with.
C6_DetectsFromTwelveBytes ==
  Called("detectMimeTypeFromBuffer") =>
     /\ (Len(input.bytes) >= 12 /\ StartsWith(input.bytes, <<255, 216, 255>>)) =>
           ret = "image/jpeg"
     /\ (Len(input.bytes) >= 12 /\ StartsWith(input.bytes, <<137, 80, 78, 71>>)) =>
           ret = "image/png"
     /\ AllZero(input.bytes) => ret = Null
     /\ Len(input.bytes) < 12 => ret = Null

\* Exactly twelve bytes, a JPEG start followed by bytes of other signatures.
C6_Witness ==
  /\ Called("detectMimeTypeFromBuffer")
  /\ input.bytes = <<255, 216, 255, 71, 13, 10, 26, 10, 87, 69, 66, 80>>
  /\ ret = "image/jpeg"

----------------------------------------------------------------------------
(* Dimension arithmetic (utils.ts calculateDimensions, client-converter.ts
   calculateTargetDimensions) *)

MaxOrig == 5

MaxTarget == 5

\* Original sizes: every small rectangle, the 800 x 600 picture, and two
\* shapes whose scaled side falls exactly halfway between two integers.
OrigShapes ==
  ((1..MaxOrig) \X (1..MaxOrig))
    \cup {<<800, 600>>, <<600, 800>>, <<18, 7>>, <<17, 14>>}

\* A target is undefined or a number; 0 is a number the code treats as absent.
TargetSizes ==
  {None} \cup {Some(n) : n \in (0..MaxTarget) \cup {9, 21, 300, 400, 1600}}

\* Math.round(n / d) for integers n >= 0 and d > 0, the quotient taken exactly.
RoundDiv(n, d) == (2 * n + d) \div (2 * d)

\* `!targetWidth`: undefined or 0.
Falsy(t) == ~t.some \/ t.val = 0

(* The `number` type: IEEE 754 binary64.  A positive number is [m, e], worth
   m * 2^e, with a significand m of exactly Precision bits.  Significands and
   the intermediate numerators and remainders are naturals of NLimbs limbs in
   base LimbBase, least significant limb first.  The arithmetic is written
   as functions, which are applied to values. *)
Precision == 53

LimbBits == 15

LimbBase == 32768

NLimbs == 5

Limbs == Int \X Int \X Int \X Int \X Int

Nums == [m : Limbs, e : Int]

Carry[x \in Limbs] ==
  LET s2 == x[2] + (x[1] \div LimbBase)
      s3 == x[3] + (s2 \div LimbBase)
      s4 == x[4] + (s3 \div LimbBase)
      s5 == x[5] + (s4 \div LimbBase)
  IN  <<x[1] % LimbBase, s2 % LimbBase, s3 % LimbBase, s4 % LimbBase, s5>>

BigFromInt[n \in Int] == Carry[<<n, 0, 0, 0, 0>>]

BigAdd[x \in Limbs, y \in Limbs] ==
  Carry[<<x[1] + y[1], x[2] + y[2], x[3] + y[3], x[4] + y[4], x[5] + y[5]>>]

\* x - y for x >= y
BigSub[x \in Limbs, y \in Limbs] ==
  Carry[<<x[1] - y[1], x[2] - y[2], x[3] - y[3], x[4] - y[4], x[5] - y[5]>>]

\* x * t for a natural t < LimbBase
BigMulSmall[x \in Limbs, t \in Int] ==
  Carry[<<x[1] * t, x[2] * t, x[3] * t, x[4] * t, x[5] * t>>]

BigDouble[x \in Limbs] == BigAdd[x, x]

BigLess[x \in Limbs, y \in Limbs] ==
  \E i \in 1..NLimbs : x[i] < y[i] /\ \A j \in (i + 1)..NLimbs : x[j] = y[j]

BigPow2[k \in Int] ==
  LET limb(i) == IF i = (k \div LimbBits) + 1 THEN 2 ^ (k % LimbBits) ELSE 0
  IN  <<limb(1), limb(2), limb(3), limb(4), limb(5)>>

\* the value of x when it is below LimbBase * LimbBase
BigToInt[x \in Limbs] == x[1] + LimbBase * x[2]

\* floor(x / 2^s)
BigShiftRight[x \in Limbs, s \in Int] ==
  LET limbs == s \div LimbBits
      bits == 2 ^ (s % LimbBits)
      from(i) == IF i + limbs <= NLimbs THEN x[i + limbs] ELSE 0
      limb(i) == (from(i) + LimbBase * (from(i + 1) % bits)) \div bits
  IN  <<limb(1), limb(2), limb(3), limb(4), limb(5)>>

\* x * 2^s
BigShiftLeft[x \in Limbs, s \in Int] ==
  LET limbs == s \div LimbBits
      bits == 2 ^ (s % LimbBits)
      limb(i) == IF i > limbs THEN x[i - limbs] * bits ELSE 0
  IN  Carry[<<limb(1), limb(2), limb(3), limb(4), limb(5)>>]

\* the number of binary digits of x > 0
BigBitLength[x \in Limbs] ==
  LET top == CHOOSE i \in 1..NLimbs : x[i] # 0 /\ \A j \in (i + 1)..NLimbs : x[j] = 0
      len == CHOOSE k \in 1..LimbBits : 2 ^ (k - 1) <= x[top] /\ x[top] < 2 ^ k
  IN  (top - 1) * LimbBits + len

\* n / d = (n' / d') * 2^e' with d' <= n' < 2 d', the remainder of the first
\* digit (a one) and the digits so far.
Scale[n \in Limbs, d \in Limbs, e \in Int] ==
  LET ln == BigBitLength[n]
      ld == BigBitLength[d]
      n1 == IF ln < ld THEN BigShiftLeft[n, ld - ln] ELSE n
      d1 == IF ln > ld THEN BigShiftLeft[d, ln - ld] ELSE d
  IN  IF BigLess[n1, d1]
      THEN [q |-> BigFromInt[1], r |-> BigSub[BigDouble[n1], d1], d |-> d1,
            e |-> e + ln - ld - 1]
      ELSE [q |-> BigFromInt[1], r |-> BigSub[n1, d1], d |-> d1, e |-> e + ln - ld]

Divisions == [q : Limbs, r : Limbs, d : Limbs, e : Int]

\* Long division, one binary digit a step: s.q is the quotient so far and
\* s.r the remainder (s.r < s.d); k digits are appended.
Digits[s \in Divisions, k \in Int] ==
  IF k = 0 THEN s
  ELSE IF BigLess[BigDouble[s.r], s.d]
  THEN Digits[[s EXCEPT !.q = BigDouble[s.q], !.r = BigDouble[s.r]], k - 1]
  ELSE Digits[[s EXCEPT !.q = BigAdd[BigDouble[s.q], BigFromInt[1]],
                        !.r = BigSub[BigDouble[s.r], s.d]], k - 1]

\* The quotient rounded to the nearest number, ties to the even significand.
Rounded[s \in Divisions] ==
  LET up == \/ BigLess[s.d, BigDouble[s.r]]
            \/ (BigDouble[s.r] = s.d /\ s.q[1] % 2 = 1)
  IN  IF up /\ BigAdd[s.q, BigFromInt[1]] = BigPow2[Precision]
      THEN [m |-> BigPow2[Precision - 1], e |-> s.e - (Precision - 1) + 1]
      ELSE [m |-> IF up THEN BigAdd[s.q, BigFromInt[1]] ELSE s.q,
            e |-> s.e - (Precision - 1)]

\* The number nearest to (n / d) * 2^e: the rounding of every arithmetic
\* operation on numbers.
RoundToNearest[n \in Limbs, d \in Limbs, e \in Int] ==
  Rounded[Digits[Scale[n, d, e], Precision - 1]]

\* a / b, a * x and a / x for positive integers a, b < LimbBase and a number x
DivIntInt[a \in Int, b \in Int] == RoundToNearest[BigFromInt[a], BigFromInt[b], 0]

MulIntNum[a \in Int, x \in Nums] == RoundToNearest[BigMulSmall[x.m, a], BigFromInt[1], x.e]

DivIntNum[a \in Int, x \in Nums] == RoundToNearest[BigFromInt[a], x.m, 0 - x.e]

\* x > y
NumGreater[x \in Nums, y \in Nums] == x.e > y.e \/ (x.e = y.e /\ BigLess[y.m, x.m])

\* Math.round(x) for a positive x below 2^(Precision - 1): floor(x + 1/2).
MathRoundNum[x \in Nums] ==
  IF 0 - x.e - 1 >= Precision THEN 0
  ELSE (BigToInt[BigShiftRight[x.m, 0 - x.e - 1]] + 1) \div 2

calculateAspectRatio(w, h) == DivIntInt[w, h]

\* The rounded side of the width-constrained and of the height-constrained
\* result: Math.round(targetWidth / aspectRatio) and
\* Math.round(targetHeight * aspectRatio).
ScaledHeight[targetWidth \in Int, aspectRatio \in Nums] ==
  MathRoundNum[DivIntNum[targetWidth, aspectRatio]]

ScaledWidth[targetHeight \in Int, aspectRatio \in Nums] ==
  MathRoundNum[MulIntNum[targetHeight, aspectRatio]]

calculateDimensions_HeightFirst(originalWidth, originalHeight, targetWidth, targetHeight) ==
  IF Falsy(targetWidth) /\ Falsy(targetHeight)
  THEN [width |-> originalWidth, height |-> originalHeight]
  ELSE IF ~Falsy(targetWidth) /\ Falsy(targetHeight)
  THEN [width |-> targetWidth.val,
        height |-> ScaledHeight[targetWidth.val,
                                calculateAspectRatio(originalWidth, originalHeight)]]
  ELSE [width |-> ScaledWidth[targetHeight.val,
                              calculateAspectRatio(originalWidth, originalHeight)],
        height |-> targetHeight.val]

calculateDimensions(originalWidth, originalHeight, targetWidth, targetHeight) ==
  IF Falsy(targetWidth) /\ Falsy(targetHeight)
  THEN [width |-> originalWidth, height |-> originalHeight]
  ELSE LET aspectRatio == calculateAspectRatio(originalWidth, originalHeight)
       IN  IF ~Falsy(targetWidth) /\ Falsy(targetHeight)
           THEN [width |-> targetWidth.val,
                 height |-> ScaledHeight[targetWidth.val, aspectRatio]]
           ELSE IF ~Falsy(targetHeight) /\ Falsy(targetWidth)
           THEN [width |-> ScaledWidth[targetHeight.val, aspectRatio],
                 height |-> targetHeight.val]
           ELSE IF NumGreater[aspectRatio,
                              calculateAspectRatio(targetWidth.val, targetHeight.val)]
           THEN [width |-> targetWidth.val,
                 height |-> ScaledHeight[targetWidth.val, aspectRatio]]
           ELSE [width |-> ScaledWidth[targetHeight.val, aspectRatio],
                 height |-> targetHeight.val]

calculateTargetDimensions(originalWidth, originalHeight, targetWidth, targetHeight) ==
  IF Falsy(targetWidth) /\ Falsy(targetHeight)
  THEN [width |-> originalWidth, height |-> originalHeight]
  ELSE LET aspectRatio == DivIntInt[originalWidth, originalHeight]
       IN  IF ~Falsy(targetWidth) /\ Falsy(targetHeight)
           THEN [width |-> targetWidth.val,
                 height |-> ScaledHeight[targetWidth.val, aspectRatio]]
           ELSE IF ~Falsy(targetHeight) /\ Falsy(targetWidth)
           THEN [width |-> ScaledWidth[targetHeight.val, aspectRatio],
                 height |-> targetHeight.val]
           ELSE IF NumGreater[aspectRatio,
                              DivIntInt[targetWidth.val, targetHeight.val]]
           THEN [width |-> targetWidth.val,
                 height |-> ScaledHeight[targetWidth.val, aspectRatio]]
           ELSE [width |-> ScaledWidth[targetHeight.val, aspectRatio],
                 height |-> targetHeight.val]

CallCalculateDimensions ==
  Call("calculateDimensions", "dims",
       calculateDimensions(input.originalWidth, input.originalHeight,
                           input.targetWidth, input.targetHeight))

\* convertImageClient sizes its canvas with the result.
CallCalculateTargetDimensions ==
  Call("calculateTargetDimensions", "dims",
       calculateTargetDimensions(input.originalWidth, input.originalHeight,
                                 input.targetWidth, input.targetHeight))

InitDims ==
  /\ pc = "ready"
  /\ input \in {[kind |-> "dims", originalWidth |-> s[1], originalHeight |-> s[2],
                 targetWidth |-> tw, targetHeight |-> th] :
                   s \in OrigShapes, tw \in TargetSizes, th \in TargetSizes}
  /\ op = "none"
  /\ ret = Null
  /\ HandlerIdle
  /\ locals = NoLocals

NextDims ==
  \/ CallCalculateDimensions
  \/ CallCalculateTargetDimensions

SpecDims == InitDims /\ [][NextDims]_vars

\* C10: converters never upscale: for every original size and every
\* combination of target width and height, the dimensions computed by
\* calculateDimensions and by calculateTargetDimensions are at most the
\* original width and height.
C10_NeverUpscale ==
  (Called("calculateDimensions") \/ Called("calculateTargetDimensions")) =>
     /\ ret.width <= input.originalWidth
     /\ ret.height <= input.originalHeight

BothGiven == ~Falsy(input.targetWidth) /\ ~Falsy(input.targetHeight)

\* C11: when both a target width and a target height are given, for every
\* original size the result of calculateDimensions and of
\* calculateTargetDimensions fits inside the target box (width at most the
\* target width, height at most the target height) and the more constraining
\* axis equals its target; 800 x 600 into 400 x 400 gives 400 x 300.
C11_FitsTargetBox ==
  ((Called("calculateDimensions") \/ Called("calculateTargetDimensions")) /\ BothGiven) =>
     LET ow == input.originalWidth
         oh == input.originalHeight
         tw == input.targetWidth.val
         th == input.targetHeight.val
     IN  /\ ret.width <= tw
         /\ ret.height <= th
         /\ (ow * th > tw * oh) => ret.width = tw
         /\ (ow * th < tw * oh) => ret.height = th
         /\ (ow * th = tw * oh) => (ret.width = tw /\ ret.height = th)
         /\ (ow = 800 /\ oh = 600 /\ tw = 400 /\ th = 400) =>
               ret = [width |-> 400, height |-> 300]

\* 800 x 600 fitted into 400 x 400 by calculateDimensions.
C11_Witness ==
  /\ Called("calculateDimensions")
  /\ input.originalWidth = 800
  /\ input.originalHeight = 600
  /\ input.targetWidth = Some(400)
  /\ input.targetHeight = Some(400)
  /\ ret = [width |-> 400, height |-> 300]

\* C12: for every original size (ow, oh), calculateDimensions returns (ow, oh)
\* when neither target is given, (w, round(w * oh / ow)) when only the width w
\* is given and (round(h * ow / oh), h) when only the height h is given.
C12_SingleTargetScales ==
  Called("calculateDimensions") =>
     LET ow == input.originalWidth
         oh == input.originalHeight
     IN  /\ (~input.targetWidth.some /\ ~input.targetHeight.some) =>
               ret = [width |-> ow, height |-> oh]
         /\ (~Falsy(input.targetWidth) /\ ~input.targetHeight.some) =>
               ret = [width |-> input.targetWidth.val,
                      height |-> RoundDiv(input.targetWidth.val * oh, ow)]
         /\ (~Falsy(input.targetHeight) /\ ~input.targetWidth.some) =>
               ret = [width |-> RoundDiv(input.targetHeight.val * ow, oh),
                      height |-> input.targetHeight.val]

----------------------------------------------------------------------------
(* Filenames (utils.ts sanitizeFilename, changeExtension,
   generateOutputFilename) *)

MaxSanitizeLen == 3

\* Margin around FILENAME_LIMIT of the long names tried.
LongMargin == 1

SanitizeChars == {"a", "Z", "9", "_", ".", "/", "\\", ":", "NUL", " "}

\* n times the letter a, then tail.
Padded(n, tail) ==
  [i \in 1..(n + Len(tail)) |-> IF i <= n THEN "a" ELSE tail[i - n]]

LongTails == {<<>>, <<".">>, <<".", ".">>, <<".", "a">>, <<"/", ".", ".", "/">>}

LongNames ==
  {Padded(n, t) : n \in (FILENAME_LIMIT - LongMargin - 1)..(FILENAME_LIMIT + LongMargin),
                  t \in LongTails}
    \cup {[i \in 1..(FILENAME_LIMIT + LongMargin) |-> c] : c \in {".", "/"}}

NameInputs ==
  {[kind |-> "name", name |-> n, format |-> f] :
      n \in SeqsUpTo(SanitizeChars, MaxSanitizeLen) \cup LongNames,
      f \in {"png", "jpeg"}}

CallSanitizeFilename ==
  Call("sanitizeFilename", "name", sanitizeFilename(input.name))

CallChangeExtension ==
  Call("changeExtension", "name", changeExtension(input.name, FormatChars(input.format)))

CallGenerateOutputFilename ==
  Call("generateOutputFilename", "name", generateOutputFilename(input.name, input.format))

InitNames ==
  /\ pc = "ready"
  /\ input \in NameInputs
  /\ op = "none"
  /\ ret = Null
  /\ HandlerIdle
  /\ locals = NoLocals

NextNames ==
  \/ CallSanitizeFilename
  \/ CallChangeExtension
  \/ CallGenerateOutputFilename

SpecNames == InitNames /\ [][NextNames]_vars

\* The rules a sanitized name obeys: not empty, at most 255 characters, only
\* characters of [A-Za-z0-9._-] (hence no '/', '\' or NUL), no '..'.
IsSanitized(name) ==
  /\ Len(name) >= 1
  /\ Len(name) <= 255
  /\ \A i \in 1..Len(name) : name[i] \in SafeChars
  /\ \A i \in 1..Len(name) : name[i] \notin {"/", "\\", "NUL"}
  /\ \A i \in 1..(Len(name) - 1) : ~(name[i] = "." /\ name[i + 1] = ".")

OnlyDots(name) == \A i \in 1..Len(name) : name[i] = "."

\* C13: for every input string sanitizeFilename returns a non-empty string of
\* at most 255 characters made only of [A-Za-z0-9._-], with no '/', '\', NUL
\* or '..'; an empty input or one made only of dots gives 'converted_file'.
C13_SanitizedName ==
  Called("sanitizeFilename") =>
     /\ IsSanitized(ret)
     /\ OnlyDots(input.name) => ret = ConvertedFile

\* A name longer than the limit, ending in "/../", cut to 255 characters.
C13_Witness ==
  /\ Called("sanitizeFilename")
  /\ Len(input.name) > FILENAME_LIMIT
  /\ \E i \in 1..(Len(input.name) - 1) : input.name[i] = "." /\ input.name[i + 1] = "."
  /\ Len(ret) = FILENAME_LIMIT
  /\ IsSanitized(ret)

----------------------------------------------------------------------------
(* Encoder quality (types.ts applyFormatConversion, client-converter.ts
   canvasToBlob), clampQuality and normalizeFormat *)

FORMAT_TO_MIME ==
  [f \in ImageFormats |->
     CASE f \in {"jpg", "jpeg"} -> "image/jpeg"
       [] f = "png" -> "image/png"
       [] f = "webp" -> "image/webp"
       [] f = "gif" -> "image/gif"
       [] f = "avif" -> "image/avif"
       [] f = "tiff" -> "image/tiff"
       [] f = "bmp" -> "image/bmp"]

getMimeType(format) ==
  IF format \in DOMAIN FORMAT_TO_MIME THEN FORMAT_TO_MIME[format]
  ELSE "application/octet-stream"

\* `quality ?`: undefined and 0 are falsy.
Truthy(quality) == quality.some /\ quality.val # 0

\* The Sharp output method applyFormatConversion calls for a format, and
\* whether the call is given `quality: qualityValue`.
SharpMethod(format) ==
  CASE format \in {"jpg", "jpeg"} -> [method |-> "jpeg", withQuality |-> TRUE]
    [] format = "png" -> [method |-> "png", withQuality |-> FALSE]
    [] format = "webp" -> [method |-> "webp", withQuality |-> TRUE]
    [] format = "avif" -> [method |-> "avif", withQuality |-> TRUE]
    [] format = "tiff" -> [method |-> "tiff", withQuality |-> FALSE]
    [] format = "gif" -> [method |-> "gif", withQuality |-> FALSE]
    [] format = "bmp" -> [method |-> "png", withQuality |-> FALSE]
    [] OTHER -> [method |-> "none", withQuality |-> FALSE]

\* The result is the encoder call made: its method, the local qualityValue
\* and the quality option passed (none for png, tiff, gif and bmp).
applyFormatConversion_Unclamped(format, quality) ==
  LET useQuality == supportsQuality(format)
      qualityValue == IF useQuality /\ Truthy(quality) THEN quality.val
                      ELSE Num(DEFAULT_QUALITY)
  IN  [method |-> SharpMethod(format).method,
       qualityValue |-> qualityValue,
       quality |-> IF SharpMethod(format).withQuality THEN Some(qualityValue) ELSE None]

applyFormatConversion(format, quality) ==
  LET useQuality == supportsQuality(format)
      qualityValue == IF useQuality /\ Truthy(quality) THEN clampQuality(quality.val)
                      ELSE Num(DEFAULT_QUALITY)
  IN  [method |-> SharpMethod(format).method,
       qualityValue |-> qualityValue,
       quality |-> IF SharpMethod(format).withQuality THEN Some(qualityValue) ELSE None]

\* The arguments of canvas.toBlob: the MIME type and qualityValue, the number
\* clampQuality(quality) / 100 or DEFAULT_QUALITY / 100.
canvasToBlob(format, quality) ==
  LET useQuality == supportsQuality(format) /\ quality.some
  IN  [mimeType |-> getMimeType(format),
       qualityValue |-> IF useQuality THEN DivIntInt[clampQuality(quality.val) \div 2, 100]
                        ELSE DivIntInt[DEFAULT_QUALITY, 100]]

\* The letter-case variants of the supported formats tried.
FormatSpellings ==
  ImageFormats \cup {"JPEG", "JPG", "PNG", "WebP", "Jpeg", "GIF", "AVIF", "Tiff", "BMP"}

\* The qualities handed to a converter: those of QualitySamples and integers
\* further outside [1, 100].
EncodeQualities == QualitySamples \cup {Some(Num(q)) : q \in {0 - 5, 101, 150}}

EncodeInputs == [kind : {"encode"}, format : ImageFormats, quality : EncodeQualities]

SpellingInputs == [kind : {"spelling"}, format : FormatSpellings]

CallApplyFormatConversion ==
  Call("applyFormatConversion", "encode",
       applyFormatConversion(input.format, input.quality))

CallCanvasToBlob ==
  Call("canvasToBlob", "encode", canvasToBlob(input.format, input.quality))

CallClampQuality ==
  /\ input.kind = "encode"
  /\ input.quality.some
  /\ Call("clampQuality", "encode", clampQuality(input.quality.val))

CallNormalizeFormat ==
  Call("normalizeFormat", "spelling", normalizeFormat(input.format))

InitEncode ==
  /\ pc = "ready"
  /\ input \in EncodeInputs \cup SpellingInputs
  /\ op = "none"
  /\ ret = Null
  /\ HandlerIdle
  /\ locals = NoLocals

NextEncode ==
  \/ CallApplyFormatConversion
  \/ CallCanvasToBlob
  \/ CallClampQuality
  \/ CallNormalizeFormat

SpecEncode == InitEncode /\ [][NextEncode]_vars

\* x <= y on numbers
NumAtMost(x, y) == ~NumGreater[x, y]

\* C21: for every destination format and every quality (absent, 0, negative,
\* above 100, in range) the quality the server passes to the encoder lies in
\* [1, 100] and the one the client passes to canvas.toBlob in [0.01, 1]; for a
\* destination outside {jpg, jpeg, webp, avif} what is passed to the encoder
\* is the same whatever the quality.
C21_EncoderQualityInRange ==
  /\ Called("applyFormatConversion") =>
        /\ ret.quality.some =>
              (ret.quality.val >= Num(1) /\ ret.quality.val <= Num(100))
        /\ input.format \notin {"jpg", "jpeg", "webp", "avif"} =>
              \A q \in EncodeQualities :
                 LET other == applyFormatConversion(input.format, q)
                 IN  other.method = ret.method /\ other.quality = ret.quality
  /\ Called("canvasToBlob") =>
        /\ NumAtMost(DivIntInt[1, 100], ret.qualityValue)
        /\ NumAtMost(ret.qualityValue, DivIntInt[1, 1])
        /\ input.format \notin {"jpg", "jpeg", "webp", "avif"} =>
              \A q \in EncodeQualities : canvasToBlob(input.format, q) = ret

\* A quality above 100 for a lossy destination reaches the encoder as 100,
\* and as 1 (100 / 100) on the client.
C21_Witness ==
  /\ pc = "done"
  /\ input.kind = "encode"
  /\ input.format = "webp"
  /\ input.quality.some
  /\ input.quality.val > Num(100)
  /\ \/ op = "applyFormatConversion" /\ ret.quality = Some(Num(100))
     \/ op = "canvasToBlob" /\ ret.qualityValue = DivIntInt[1, 1]

\* C23: for every integer quality q, clampQuality(q) lies in [1, 100], is q
\* itself when q is in [1, 100], and clamping it again changes nothing.
C23_ClampQuality ==
  (Called("clampQuality") /\ IsInteger(input.quality.val)) =>
     /\ ret >= Num(1)
     /\ ret <= Num(100)
     /\ (input.quality.val >= Num(1) /\ input.quality.val <= Num(100)) =>
           ret = input.quality.val
     /\ clampQuality(ret) = ret

\* Quality 0 is clamped up to 1.
C23_Witness ==
  /\ Called("clampQuality")
  /\ input.quality.val = Num(0)
  /\ ret = Num(1)

\* C24: for every supported format in every spelling, normalizeFormat is
\* idempotent, turns 'jpeg' into 'jpg' and never returns 'jpeg'.
C24_NormalizeFormat ==
  Called("normalizeFormat") =>
     /\ normalizeFormat(ret) = ret
     /\ input.format = "jpeg" => ret = "jpg"
     /\ ret # "jpeg"

\* The spelling JPEG becomes jpg.
C24_Witness ==
  /\ Called("normalizeFormat")
  /\ input.format = "JPEG"
  /\ ret = "jpg"

\* The quality each side is meant to use: clampQuality(q) for a lossy
\* destination with a quality supplied, DEFAULT_QUALITY otherwise.
EffectiveQuality(format, quality) ==
  IF format \in {"jpg", "jpeg", "webp", "avif"} /\ quality.some
  THEN clampQuality(quality.val)
  ELSE Num(DEFAULT_QUALITY)

\* C28: for every destination format and supplied quality the server and the
\* client use the same effective quality, clampQuality(q) for a lossy
\* destination with q supplied (q = 0 included) and 90 otherwise: the
\* server's value is 100 times the client's.
C28_SameEffectiveQuality ==
  /\ Called("applyFormatConversion") =>
        /\ ret.qualityValue = EffectiveQuality(input.format, input.quality)
        /\ canvasToBlob(input.format, input.quality).qualityValue
              = DivIntInt[ret.qualityValue \div 2, 100]
  /\ Called("canvasToBlob") =>
        ret.qualityValue
           = DivIntInt[EffectiveQuality(input.format, input.quality) \div 2, 100]

----------------------------------------------------------------------------
(* Signatures (formats.ts MAGIC_BYTES) against detectMimeTypeFromBuffer *)

MAGIC_BYTES ==
  << [format |-> "jpg", signature |-> <<255, 216, 255>>, offset |-> 0],
     [format |-> "png", signature |-> <<137, 80, 78, 71, 13, 10, 26, 10>>, offset |-> 0],
     [format |-> "gif", signature |-> <<71, 73, 70, 56>>, offset |-> 0],
     [format |-> "webp", signature |-> <<82, 73, 70, 70>>, offset |-> 0],
     [format |-> "tiff", signature |-> <<73, 73, 42, 0>>, offset |-> 0],
     [format |-> "tiff", signature |-> <<77, 77, 0, 42>>, offset |-> 0],
     [format |-> "bmp", signature |-> <<66, 77>>, offset |-> 0] >>

\* The whole signature of a table entry is present at its offset.
SignaturePresent(buffer, entry) ==
  /\ entry.offset + Len(entry.signature) <= Len(buffer)
  /\ \A i \in 1..Len(entry.signature) : buffer[entry.offset + i] = entry.signature[i]

TableMatches(buffer, format) ==
  \E i \in 1..Len(MAGIC_BYTES) :
     MAGIC_BYTES[i].format = format /\ SignaturePresent(buffer, MAGIC_BYTES[i])

\* C26: for every buffer of at least 12 bytes detectMimeTypeFromBuffer returns
\* the MIME type of format f exactly when some MAGIC_BYTES entry of f has its
\* whole signature at its offset in the buffer, and null when no entry does.
C26_DetectionFollowsTable ==
  (Called("detectMimeTypeFromBuffer") /\ Len(input.bytes) >= 12) =>
     /\ \A f \in {MAGIC_BYTES[i].format : i \in 1..Len(MAGIC_BYTES)} :
           (ret = getMimeType(f)) <=> TableMatches(input.bytes, f)
     /\ (\A i \in 1..Len(MAGIC_BYTES) : ~SignaturePresent(input.bytes, MAGIC_BYTES[i])) =>
           ret = Null

\* The source formats of the capability matrix.
SourceFormats == {CONVERSION_MATRIX[i].from : i \in 1..Len(CONVERSION_MATRIX)}

\* C30: every source format of CONVERSION_MATRIX (avif included) has some
\* file content that validateBuffer, called with the format's MIME type,
\* accepts, the content being one detectMimeTypeFromBuffer recognises as that
\* format.
C30_EverySourceFormatDetectable ==
  Called("validateBuffer") =>
     \A f \in SourceFormats :
        \E c \in FileContents :
           /\ validateBuffer(c, getMimeType(f), DefaultFileOptions(TRUE)).valid
           /\ detectMimeTypeFromBuffer(c.head) = getMimeType(f)

----------------------------------------------------------------------------
(* Batches (types.ts batchConvertBuffers, client-converter.ts
   batchConvertImages) *)

MaxBatch == 4

\* A batch call: the function and the number of items handed to it; item k of
\* the list is named k.
BatchInputs ==
  [kind : {"batch"}, fn : {"batchConvertBuffers", "batchConvertImages"},
   count : 0..MaxBatch]

\* `const results = []` and the iterator of the for-of loop: next is the item
\* the loop takes next, inFlight the items whose conversion has been started
\* and has not settled.
BatchEnter ==
  /\ pc = "ready"
  /\ input.kind = "batch"
  /\ op' = input.fn
  /\ locals' = [results |-> <<>>, next |-> 1, inFlight |-> {}]
  /\ pc' = "loop"
  /\ UNCHANGED <<input, ret, handlerVars>>

\* The loop takes the next item and calls the converter on it, or, the list
\* exhausted, returns results.
BatchIterate ==
  /\ pc = "loop"
  /\ IF locals.next <= input.count
     THEN /\ locals' = [locals EXCEPT !.inFlight = @ \cup {locals.next}]
          /\ converterCalls' = converterCalls + 1
          /\ pc' = "await"
          /\ UNCHANGED ret
     ELSE /\ ret' = locals.results
          /\ pc' = "done"
          /\ UNCHANGED <<locals, converterCalls>>
  /\ UNCHANGED <<input, op, bufferValidation, paramsValidation, conversionResult,
                 response>>

BatchSettle_AbortsOnFailure ==
  /\ pc = "await"
  /\ \E success \in BOOLEAN :
        /\ locals' = [results |-> Append(locals.results,
                                         [item |-> locals.next, success |-> success]),
                      next |-> locals.next + 1,
                      inFlight |-> locals.inFlight \ {locals.next}]
        /\ IF success
           THEN pc' = "loop" /\ UNCHANGED ret
           ELSE pc' = "done" /\ ret' = locals'.results
  /\ UNCHANGED <<input, op, handlerVars>>

\* `await convert...(item, options)` settles: the converters catch their own
\* errors (types.ts:300-307, client-converter.ts:77-82), so the promise
\* resolves, with success true or false; the result is pushed.
BatchSettle ==
  /\ pc = "await"
  /\ \E success \in BOOLEAN :
        locals' = [results |-> Append(locals.results,
                                      [item |-> locals.next, success |-> success]),
                   next |-> locals.next + 1,
                   inFlight |-> locals.inFlight \ {locals.next}]
  /\ pc' = "loop"
  /\ UNCHANGED <<input, op, ret, handlerVars>>

InitBatch ==
  /\ pc = "ready"
  /\ input \in BatchInputs
  /\ op = "none"
  /\ ret = Null
  /\ HandlerIdle
  /\ locals = NoLocals

NextBatch ==
  \/ BatchEnter
  \/ BatchIterate
  \/ BatchSettle

SpecBatch == InitBatch /\ [][NextBatch]_vars

\* C22: a batch is a strictly sequential iteration: the conversion of item
\* i + 1 starts only after that of item i has completed, the list returned has
\* exactly one result per input in input order, and a failed item neither
\* aborts the batch nor keeps later items from being converted.
C22_BatchIsSequential ==
  /\ pc \in {"loop", "await"} =>
        /\ Cardinality(locals.inFlight) <= 1
        /\ \A k \in locals.inFlight : k = Len(locals.results) + 1
        /\ pc = "await" <=> locals.inFlight # {}
        /\ \A k \in 1..Len(locals.results) : locals.results[k].item = k
  /\ (pc = "done" /\ input.kind = "batch") =>
        /\ Len(ret) = input.count
        /\ \A k \in 1..Len(ret) : ret[k].item = k
        /\ converterCalls = input.count

\* A batch of three whose first item failed and whose later items were
\* converted.
C22_Witness ==
  /\ pc = "done"
  /\ input.kind = "batch"
  /\ input.count = 3
  /\ ~ret[1].success
  /\ ret[2].success
  /\ ret[3].success

----------------------------------------------------------------------------
(* utils.ts: retry *)

MaxAttempts == 3

RetryDelays == {0, 250, 1000}

\* What one call of fn settles with: a value it resolves with, or an error it
\* rejects with (or throws).
RetryOutcomes ==
  [ok : {TRUE}, val : {"value1", "value2"}] \cup [ok : {FALSE}, val : {"error1", "error2"}]

RetryInputs == [kind : {"retry"}, maxRetries : 0..MaxAttempts, delayMs : RetryDelays]

\* `let lastError` and `let i = 0`; attempts records what each call of fn
\* settled with, waits the duration of each sleep, inFlight the calls of fn
\* not yet settled.
RetryEnter ==
  /\ pc = "ready"
  /\ input.kind = "retry"
  /\ op' = "retry"
  /\ locals' = [i |-> 0, lastError |-> Undefined, attempts |-> <<>>, waits |-> <<>>,
                inFlight |-> 0]
  /\ pc' = "test"
  /\ UNCHANGED <<input, ret, handlerVars>>

\* The loop condition i < maxRetries: fn is called, or lastError is thrown.
RetryTest ==
  /\ pc = "test"
  /\ IF locals.i < input.maxRetries
     THEN /\ locals' = [locals EXCEPT !.inFlight = @ + 1]
          /\ pc' = "call"
          /\ UNCHANGED ret
     ELSE /\ ret' = [thrown |-> TRUE, value |-> locals.lastError]
          /\ pc' = "done"
          /\ UNCHANGED locals
  /\ UNCHANGED <<input, op, handlerVars>>

RetrySettle_AlwaysSleeps ==
  /\ pc = "call"
  /\ \E o \in RetryOutcomes :
        IF o.ok
        THEN /\ locals' = [locals EXCEPT !.attempts = Append(@, o), !.inFlight = @ - 1]
             /\ ret' = [thrown |-> FALSE, value |-> o.val]
             /\ pc' = "done"
        ELSE /\ locals' = [locals EXCEPT !.attempts = Append(@, o), !.inFlight = @ - 1,
                                         !.lastError = o.val,
                                         !.waits = Append(@, input.delayMs * 2 ^ locals.i)]
             /\ pc' = "sleep"
             /\ UNCHANGED ret
  /\ UNCHANGED <<input, op, handlerVars>>

\* `return await fn()` settles: a value is returned; an error is kept in
\* lastError and, unless this was the last round, sleep(delayMs * 2^i) starts.
RetrySettle ==
  /\ pc = "call"
  /\ \E o \in RetryOutcomes :
        IF o.ok
        THEN /\ locals' = [locals EXCEPT !.attempts = Append(@, o), !.inFlight = @ - 1]
             /\ ret' = [thrown |-> FALSE, value |-> o.val]
             /\ pc' = "done"
        ELSE IF locals.i < input.maxRetries - 1
        THEN /\ locals' = [locals EXCEPT !.attempts = Append(@, o), !.inFlight = @ - 1,
                                         !.lastError = o.val,
                                         !.waits = Append(@, input.delayMs * 2 ^ locals.i)]
             /\ pc' = "sleep"
             /\ UNCHANGED ret
        ELSE /\ locals' = [locals EXCEPT !.attempts = Append(@, o), !.inFlight = @ - 1,
                                         !.lastError = o.val, !.i = @ + 1]
             /\ pc' = "test"
             /\ UNCHANGED ret
  /\ UNCHANGED <<input, op, handlerVars>>

\* The sleep is over: i++.
RetryWake ==
  /\ pc = "sleep"
  /\ locals' = [locals EXCEPT !.i = @ + 1]
  /\ pc' = "test"
  /\ UNCHANGED <<input, op, ret, handlerVars>>

InitRetry ==
  /\ pc = "ready"
  /\ input \in RetryInputs
  /\ op = "none"
  /\ ret = Null
  /\ HandlerIdle
  /\ locals = NoLocals

NextRetry ==
  \/ RetryEnter
  \/ RetryTest
  \/ RetrySettle
  \/ RetryWake

SpecRetry == InitRetry /\ [][NextRetry]_vars

\* The attempts that failed.
FailedAttempts == {k \in 1..Len(locals.attempts) : ~locals.attempts[k].ok}

\* C27: with maxRetries >= 1, retry calls fn at most maxRetries times and
\* never twice at once; it resolves with the value of the first successful
\* attempt and makes no further attempt; when all maxRetries attempts fail it
\* rejects with the error of the last one; the wait before attempt i + 1 is
\* delayMs * 2^i, and no wait follows the final failed attempt.
C27_RetryBacksOff ==
  (pc # "ready" /\ input.maxRetries >= 1) =>
     /\ Len(locals.attempts) + locals.inFlight <= input.maxRetries
     /\ locals.inFlight <= 1
     /\ \A k \in 1..Len(locals.attempts) :
           locals.attempts[k].ok => (k = Len(locals.attempts) /\ pc = "done")
     /\ pc = "done" =>
           IF FailedAttempts = 1..Len(locals.attempts)
           THEN /\ Len(locals.attempts) = input.maxRetries
                /\ ret = [thrown |-> TRUE,
                          value |-> locals.attempts[input.maxRetries].val]
           ELSE ret = [thrown |-> FALSE,
                       value |-> locals.attempts[Len(locals.attempts)].val]
     /\ \A k \in 1..Len(locals.waits) : locals.waits[k] = input.delayMs * 2 ^ (k - 1)
     /\ Len(locals.waits) = Min(Cardinality(FailedAttempts), input.maxRetries - 1)
     /\ pc = "sleep" => Len(locals.waits) = Len(locals.attempts)

\* Three attempts, the first two failing with different errors, the third
\* resolving after waits of delayMs and 2 * delayMs.
C27_Witness ==
  /\ pc = "done"
  /\ input.kind = "retry"
  /\ input.maxRetries = 3
  /\ input.delayMs = 250
  /\ Len(locals.attempts) = 3
  /\ locals.attempts[1].val = "error1"
  /\ locals.attempts[2].val = "error2"
  /\ locals.waits = <<250, 500>>
  /\ ret = [thrown |-> FALSE, value |-> "value2"]

----------------------------------------------------------------------------
(* utils.ts: form fields *)

\* A form field (formData.get(...) as string | null): absent, the empty
\* string, a text Number() turns into NaN, or a numeric text (val, in halves).
FieldNull == [kind |-> "null", val |-> 0]

FieldEmpty == [kind |-> "empty", val |-> 0]

FieldText == [kind |-> "text", val |-> 0]

FieldNum(h) == [kind |-> "num", val |-> h]

\* value is a string field, Null when absent and "" when empty; the result
\* is Undefined when the default is omitted.
parseFormField(value) == IF value = Null \/ value = "" THEN Undefined ELSE value

parseNumericField(value, defaultValue) ==
  IF value.kind \in {"null", "empty"} THEN defaultValue
  ELSE IF value.kind = "text" THEN defaultValue
  ELSE Some(value.val)

parseBooleanField(value, defaultValue) ==
  IF value = Null \/ value = "" THEN defaultValue
  ELSE value = "true" \/ value = "1"

----------------------------------------------------------------------------
(* pages/api/convert.ts: POST *)

\* The requests tried.  file is the `file` field; outputFormat and
\* maintainAspect are string fields (Null when absent); quality, width and
\* height are numeric fields.
RequestNames == {<<"a", ".", "a">>, <<".", ".", "/">>, Padded(FILENAME_LIMIT, <<>>)}

RequestTypes == {"image/jpeg", "image/png", "IMAGE/PNG", "text/plain"}

RequestContents ==
  {c \in FileContents :
      /\ c.size \in {0, 3, 12, MAX_FILE_SIZE + 1}
      /\ \E p \in HeadPatterns :
            /\ p[1] \in {255, 137, 0}
            /\ c.head = Take(p, c.size)}

RequestOutputFormats == {Null, "", "png", "jpeg", "JPEG", "avif", "xyz"}

RequestQualities ==
  {FieldNull, FieldText, FieldNum(Num(0)), FieldNum(Num(80)), FieldNum(Num(101))}

RequestWidths == {FieldNull, FieldNum(Num(0)), FieldNum(Num(4096)), FieldNum(Num(5000))}

RequestHeights == {FieldNull, FieldNum(Num(100)), FieldNum(Num(5000))}

RequestAspects == {Null, "false"}

Requests ==
  {[kind |-> "request", hasFile |-> hf, name |-> nm, type |-> t, size |-> c.size,
    head |-> c.head, outputFormat |-> of, quality |-> q, width |-> w,
    height |-> h, maintainAspect |-> ma] :
      hf \in {TRUE}, nm \in RequestNames, t \in RequestTypes,
      c \in RequestContents, of \in RequestOutputFormats, q \in RequestQualities,
      w \in RequestWidths, h \in RequestHeights, ma \in RequestAspects}
  \cup
  {[kind |-> "request", hasFile |-> FALSE, name |-> <<>>, type |-> "", size |-> 0,
    head |-> <<>>, outputFormat |-> of, quality |-> FieldNull, width |-> w,
    height |-> FieldNull, maintainAspect |-> Null] :
      of \in RequestOutputFormats, w \in RequestWidths}

\* What POST extracts from the form (convert.ts:47-77).
outputFormatRaw == parseFormField(input.outputFormat)

quality == parseNumericField(input.quality, Some(Num(DEFAULT_QUALITY)))

width == parseNumericField(input.width, None)

height == parseNumericField(input.height, None)

maintainAspect == parseBooleanField(input.maintainAspect, TRUE)

outputFormat == normalizeFormat(outputFormatRaw)

inputFormat == getFormatFromMime(input.type)

RequestBuffer == [size |-> input.size, head |-> input.head]

RequestParams ==
  [inputFormat |-> inputFormat, outputFormat |-> outputFormat,
   quality |-> quality, width |-> width, height |-> height]

\* new Response(JSON.stringify(createApiError(..., code)), {status}); an
\* error response names no file.
Respond(status, code) ==
  /\ response' = Some([status |-> status, code |-> code, filename |-> <<>>])
  /\ pc' = "responded"

Catch_Escapes == pc' = "escaped" /\ UNCHANGED response

\* The catch clause of POST (convert.ts:179-192).  The try block spans the
\* whole body, so an exception raised by any step ends here.
Catch == Respond(500, "INTERNAL_ERROR")

\* convert.ts:30-89: formData() rejects on a body that is not a form; then
\* the file, the output format and the declared type are looked at.
ParseForm ==
  /\ pc = "start"
  /\ \/ Catch
     \/ IF ~input.hasFile
        THEN Respond(getHttpStatusFromErrorCode("MISSING_PARAMETER"), "MISSING_PARAMETER")
        ELSE IF outputFormatRaw = Undefined
        THEN Respond(getHttpStatusFromErrorCode("MISSING_PARAMETER"), "MISSING_PARAMETER")
        ELSE IF inputFormat = Null
        THEN Respond(getHttpStatusFromErrorCode("INVALID_FILE_TYPE"), "INVALID_FILE_TYPE")
        ELSE pc' = "readFile" /\ UNCHANGED response
  /\ UNCHANGED <<input, op, ret, locals, bufferValidation, paramsValidation,
                 conversionResult, converterCalls>>

\* convert.ts:92-93: file.arrayBuffer() may reject.
ReadFile ==
  /\ pc = "readFile"
  /\ \/ Catch
     \/ pc' = "validateBuffer" /\ UNCHANGED response
  /\ UNCHANGED <<input, op, ret, locals, bufferValidation, paramsValidation,
                 conversionResult, converterCalls>>

\* convert.ts:96-108
ValidateBuffer ==
  /\ pc = "validateBuffer"
  /\ LET v == validateBuffer(RequestBuffer, input.type,
                             [maxSize |-> MAX_FILE_SIZE, checkMagicBytes |-> TRUE])
     IN  \/ Catch /\ UNCHANGED bufferValidation
         \/ /\ bufferValidation' = Some(v)
            /\ IF ~v.valid
               THEN Respond(getHttpStatusFromErrorCode(v.code), v.code)
               ELSE pc' = "validateParams" /\ UNCHANGED response
  /\ UNCHANGED <<input, op, ret, locals, paramsValidation, conversionResult, converterCalls>>

ValidateParams_ProceedsAnyway ==
  /\ pc = "validateParams"
  /\ paramsValidation' = Some(validateConversionParameters(RequestParams))
  /\ pc' = "convert"
  /\ UNCHANGED <<input, op, ret, locals, bufferValidation, conversionResult,
                 converterCalls, response>>

\* convert.ts:111-130
ValidateParams ==
  /\ pc = "validateParams"
  /\ LET v == validateConversionParameters(RequestParams)
     IN  \/ Catch /\ UNCHANGED paramsValidation
         \/ /\ paramsValidation' = Some(v)
            /\ IF ~v.valid
               THEN Respond(getHttpStatusFromErrorCode(v.code), v.code)
               ELSE pc' = "convert" /\ UNCHANGED response
  /\ UNCHANGED <<input, op, ret, locals, bufferValidation, conversionResult, converterCalls>>

MaxRetries == 2

Convert_RetriesOnFailure ==
  /\ pc = "convert"
  /\ converterCalls <= MaxRetries
  /\ converterCalls' = converterCalls + 1
  /\ \E success \in BOOLEAN :
        /\ conversionResult' = Some([success |-> success, data |-> success])
        /\ pc' = IF success THEN "shape" ELSE "convert"
  /\ UNCHANGED <<input, op, ret, locals, bufferValidation, paramsValidation, response>>

\* convert.ts:133-139: the call of convertImageServer, which catches its own
\* errors and answers success with data or failure with a message; an
\* exception raised around the call ends in the catch clause.
Convert ==
  /\ pc = "convert"
  /\ \/ /\ converterCalls' = converterCalls + 1
        /\ \E success \in BOOLEAN :
              conversionResult' = Some([success |-> success, data |-> success])
        /\ pc' = "shape"
        /\ UNCHANGED response
     \/ Catch /\ UNCHANGED <<conversionResult, converterCalls>>
  /\ UNCHANGED <<input, op, ret, locals, bufferValidation, paramsValidation>>

\* convert.ts:141-178
ShapeResponse ==
  /\ pc = "shape"
  /\ \/ Catch
     \/ IF ~conversionResult.val.success \/ ~conversionResult.val.data
        THEN Respond(getHttpStatusFromErrorCode("CONVERSION_FAILED"), "CONVERSION_FAILED")
        ELSE /\ response' = Some([status |-> 200, code |-> Undefined,
                                  filename |-> generateOutputFilename(input.name,
                                                                      outputFormat)])
             /\ pc' = "responded"
  /\ UNCHANGED <<input, op, ret, locals, bufferValidation, paramsValidation,
                 conversionResult, converterCalls>>

Init ==
  /\ pc = "start"
  /\ input \in Requests
  /\ op = "POST"
  /\ ret = Null
  /\ HandlerIdle
  /\ locals = NoLocals

Next ==
  \/ ParseForm
  \/ ReadFile
  \/ ValidateBuffer
  \/ ValidateParams
  \/ Convert
  \/ ShapeResponse

Spec == Init /\ [][Next]_vars

\* C5: convertImageServer is invoked only after validateBuffer and
\* validateConversionParameters have both returned a valid verdict for the
\* request at hand; a request with width or height above 4096 never reaches
\* the converter, and, when nothing else is wrong with it, is answered with
\* INVALID_DIMENSIONS.
C5_ConvertOnlyAfterValidation ==
  /\ (converterCalls > 0 \/ pc \in {"convert", "shape"}) =>
        /\ bufferValidation.some
        /\ bufferValidation.val.valid
        /\ bufferValidation.val =
              validateBuffer(RequestBuffer, input.type,
                             [maxSize |-> MAX_FILE_SIZE, checkMagicBytes |-> TRUE])
        /\ paramsValidation.some
        /\ paramsValidation.val.valid
        /\ paramsValidation.val = validateConversionParameters(RequestParams)
  /\ ((width.some /\ width.val > Num(4096)) \/ (height.some /\ height.val > Num(4096))) =>
        /\ converterCalls = 0
        /\ pc \notin {"convert", "shape"}
        /\ (/\ pc = "responded"
            /\ bufferValidation.some
            /\ bufferValidation.val.valid
            /\ response.val.status # 500
            /\ isSupportedFormat(outputFormat)
            /\ isConversionSupported(inputFormat, outputFormat)
            /\ validateQuality(quality.val)) =>
              /\ response.val.code = "INVALID_DIMENSIONS"
              /\ response.val.status = 422

\* A 5000 x 5000 request, otherwise in order, answered before any conversion.
C5_Witness ==
  /\ pc = "responded"
  /\ width = Some(Num(5000))
  /\ height = Some(Num(5000))
  /\ bufferValidation.some
  /\ bufferValidation.val.valid
  /\ response.val.code = "INVALID_DIMENSIONS"
  /\ converterCalls = 0

\* C14: the filename POST returns in Content-Disposition obeys the
\* sanitization rules for every uploaded filename and output format: only
\* [A-Za-z0-9._-], no '..', not empty, at most 255 characters.
C14_ResponseFilenameSanitized ==
  (pc = "responded" /\ response.val.status = 200) => IsSanitized(response.val.filename)

InternalError == [status |-> 500, code |-> "INTERNAL_ERROR", filename |-> <<>>]

\* C17: every POST request ends with exactly one response: whichever step
\* throws (form parsing, reading the bytes, validation, conversion, response
\* building) the exception is caught and the response is 500 INTERNAL_ERROR;
\* otherwise the status is one of 200, 400, 413, 415, 422.
C17_ExactlyOneResponse ==
  /\ pc \in {"start", "readFile", "validateBuffer", "validateParams", "convert",
             "shape", "responded"}
  /\ response.some <=> pc = "responded"
  /\ pc = "responded" => ~ENABLED Next
  /\ pc # "responded" =>
        /\ ENABLED Next
        /\ ENABLED (Next /\ response' = Some(InternalError))
  /\ response.some =>
        \/ response.val = InternalError
        \/ response.val.status \in {200, 400, 413, 415, 422}

\* A request that passed both validations and the conversion, and whose
\* response building threw.
C17_Witness ==
  /\ pc = "responded"
  /\ conversionResult.some
  /\ conversionResult.val.success
  /\ response.val = InternalError

\* C18: the converter is invoked at most once per request: when
\* convertImageServer reports a failure the handler answers 422
\* CONVERSION_FAILED (unless building that answer throws) and never invokes
\* the converter again.
C18_ConverterCalledOnce ==
  /\ converterCalls <= 1
  /\ conversionResult.some <=> converterCalls = 1
  /\ (/\ pc = "responded"
      /\ conversionResult.some
      /\ (~conversionResult.val.success \/ ~conversionResult.val.data)
      /\ response.val # InternalError) =>
        /\ response.val.status = 422
        /\ response.val.code = "CONVERSION_FAILED"

\* A failed conversion answered with 422 after a single call.
C18_Witness ==
  /\ pc = "responded"
  /\ converterCalls = 1
  /\ conversionResult.some
  /\ ~conversionResult.val.success
  /\ response.val.status = 422
  /\ response.val.code = "CONVERSION_FAILED"

\* The seven checks on the request at hand, in the specified order: filename,
\* size, declared MIME type, magic bytes, format-pair support, quality,
\* dimensions.
RequestChecks ==
  << validateFilename(input.name),
     validateFileSize(input.size, MAX_FILE_SIZE),
     validateFileType(input.type, ALLOWED_MIME_TYPES),
     validateFileWithMagicBytes([isBuffer |-> TRUE, size |-> input.size,
                                 head |-> input.head, readFails |-> FALSE]),
     FirstFailing(<< validateFormat(inputFormat), validateFormat(outputFormat),
                     validateConversion(inputFormat, outputFormat) >>),
     IF quality.some /\ ~validateQualityParameter(quality, outputFormat).valid
     THEN validateQualityParameter(quality, outputFormat) ELSE Valid,
     IF DimensionOutOfRange(width) \/ DimensionOutOfRange(height)
     THEN Invalid("Invalid dimensions", "INVALID_DIMENSIONS", {}) ELSE Valid >>

\* A request with a file and an output format, answered without an exception.
Answered ==
  /\ pc = "responded"
  /\ input.hasFile
  /\ outputFormatRaw # Undefined
  /\ response.val # InternalError

\* C25: POST applies the whole ordered chain: a request failing one or more
\* of the seven checks is answered with the error code of the earliest failing
\* one and is never converted; so a filename with a path separator, '..' or
\* NUL is rejected, and a file both too large and of a disallowed declared
\* type is answered with FILE_TOO_LARGE.
C25_EarliestFailingCheck ==
  Answered =>
     /\ Failing(RequestChecks) # {} =>
           /\ response.val.code = FirstFailing(RequestChecks).code
           /\ converterCalls = 0
     /\ ~validateFilename(input.name).valid => response.val.status # 200
     /\ (/\ validateFilename(input.name).valid
         /\ input.size > MAX_FILE_SIZE
         /\ ~Includes(ALLOWED_MIME_TYPES, ToLowerCase(input.type))) =>
           response.val.code = "FILE_TOO_LARGE"

\* C29: a request reaches conversion only if the format detected from the
\* file's magic bytes is the format derived from the declared MIME type.
C29_DetectedFormatIsDeclared ==
  (converterCalls > 0 \/ pc \in {"convert", "shape"}) =>
     /\ detectMimeTypeFromBuffer(input.head) # Null
     /\ getFormatFromMime(detectMimeTypeFromBuffer(input.head)) = inputFormat

====
